---- MODULE Spec2Model ----
(***************************************************************************)
(* Semantic retrieval core of dsrp-canvas: the boundary-aware chunker      *)
(* (backend/app/services/chunking_service.py), the hybrid ranking engine   *)
(* (backend/app/services/hybrid_search_service.py, backend/app/api/        *)
(* search.py) and the vector-index write path (backend/app/services/       *)
(* vector_service.py).                                                     *)
(*                                                                         *)
(* Positions in a text are 0-based as in Python; a text is a sequence of   *)
(* one-character strings, so the character at Python index i is text[i+1]. *)
(***************************************************************************)
EXTENDS Integers, Sequences, FiniteSets, TLC

\* ------------------------------------------------------------------------
\* Bounds of the chunker model
\* ------------------------------------------------------------------------
MaxLen == 6
MaxChunkSize == 3
MaxMinChunk == 2
MaxChunks == 8
LongLen == 9
LiveLen == 4

\* Bounds of the search model
MaxLimit == 4
MaxRank == 2
MaxUpserts == 2
MaxSourceLen == 2
MaxEmbedCalls == 3
LongChunkSize == 5
MaxApiLimit == 2
MaxParaText == 8
MaxParaChunk == 7
MaxQueryLen == 3
MaxShortLen == 2
MaxDefaultLen == 1200

Alphabet == {"a", " ", ".", "\n"}
Whitespace == {" ", "\n"}

VARIABLES
    text,         \* chunk(): the argument, then the trimmed text
    cfg,          \* SemanticChunker fields
    start,        \* chunk(): cursor
    end,          \* chunk(): end of the window of the last iteration
    chunks,       \* chunk(): emitted chunks
    chunk_index,  \* chunk(): next index
    cpc,          \* chunk(): "new" | "call" | "loop" | "done"
    para          \* chunk_by_paragraphs(): its position and local variables

chunkVars == <<text, cfg, start, end, chunks, chunk_index, cpc, para>>

VARIABLES
    index,        \* document_embeddings rows as one query sees them: similarity, ts_rank
    svc,          \* the singleton HybridSearchService: vector_weight, keyword_weight, rrf_k
    req,          \* the requests in progress, one record per request
    running,      \* the coroutine the event loop is executing, or Nobody
    api           \* the search cache and the /search/concepts|analyses request being served

searchVars == <<index, svc, req, running, api>>

VARIABLES
    pool,            \* vector_service._pool: TRUE once the connection pool exists
    store,           \* the embedding tables: one row per owner id
    up,              \* the upsert calls, one record per caller
    prev,            \* the call that returned before the current one started
    provider_calls,  \* requests sent to the embedding provider
    store_writes,    \* INSERT ... ON CONFLICT statements committed
    upserts          \* upsert calls started

upsertVars == <<pool, store, up, prev, provider_calls, store_writes, upserts>>

VARIABLES
    use_openai,      \* USE_OPENAI: an OpenAI API key is configured
    openai_client,   \* the cached OpenAI client of each service, if created
    emb,             \* the _get_embedding call of each service
    embed_calls      \* _get_embedding calls started

providerVars == <<use_openai, openai_client, emb, embed_calls>>

vars == <<chunkVars, searchVars, upsertVars, providerVars>>

\* ------------------------------------------------------------------------
\* Python string helpers
\* ------------------------------------------------------------------------
Min2(a, b) == IF a <= b THEN a ELSE b
Max2(a, b) == IF a >= b THEN a ELSE b
Min3(a, b, c) == Min2(a, Min2(b, c))

\* text[i] for 0 <= i < len(text)
At(t, i) == t[i + 1]

\* text[a:b] with Python's treatment of negative and out-of-range indices
PySlice(t, a, b) ==
    LET n  == Len(t)
        a1 == IF a < 0 THEN Max2(n + a, 0) ELSE Min2(a, n)
        b1 == IF b < 0 THEN Max2(n + b, 0) ELSE Min2(b, n)
    IN  IF a1 < b1 THEN SubSeq(t, a1 + 1, b1) ELSE <<>>

\* str.strip(): number of leading / trailing whitespace characters
RECURSIVE LeadingWs(_)
LeadingWs(t) ==
    IF t = <<>> \/ Head(t) \notin Whitespace THEN 0 ELSE 1 + LeadingWs(Tail(t))

RECURSIVE TrailingWs(_)
TrailingWs(t) ==
    IF t = <<>> \/ t[Len(t)] \notin Whitespace THEN 0
    ELSE 1 + TrailingWs(SubSeq(t, 1, Len(t) - 1))

Strip(t) ==
    IF LeadingWs(t) = Len(t) THEN <<>>
    ELSE SubSeq(t, LeadingWs(t) + 1, Len(t) - TrailingWs(t))

\* all sequences over S of length at most n
RECURSIVE SeqsUpTo(_, _)
SeqsUpTo(S, n) ==
    IF n = 0 THEN {<<>>}
    ELSE LET shorter == SeqsUpTo(S, n - 1)
         IN  shorter \cup {Append(s, x) : s \in {q \in shorter : Len(q) = n - 1}, x \in S}

\* ------------------------------------------------------------------------
\* SemanticChunker._find_split_point
\* ------------------------------------------------------------------------
NoSplit == -1
SentenceEndings == {".", "!", "?"}
ParagraphWindow == 200
WordWindow == 50

\* search_range = min(200, len(text) - target_pos, target_pos)
SearchRange(t, target_pos) ==
    Min3(ParagraphWindow, Len(t) - target_pos, target_pos)

\* "for offset in range(n)": what the first probe that returns returns,
\* else NoSplit; probe[o] is what the loop body does at offset o
FirstHit(probe, n) ==
    LET hits == {o \in 0..(n - 1) : probe[o] # NoSplit}
    IN  IF hits = {} THEN NoSplit
        ELSE probe[CHOOSE o \in hits : \A p \in hits : o <= p]

ParagraphProbe(t, target_pos, offset) ==
    LET fwd == target_pos + offset
        bwd == target_pos - offset
    IN  IF fwd < Len(t) - 1 /\ PySlice(t, fwd, fwd + 2) = <<"\n", "\n">>
        THEN fwd + 2
        ELSE IF bwd > 0 /\ PySlice(t, bwd - 2, bwd) = <<"\n", "\n">>
        THEN bwd
        ELSE NoSplit

SentenceProbe(t, target_pos, offset) ==
    LET fwd == target_pos + offset
        bwd == target_pos - offset
    IN  IF fwd < Len(t) /\ At(t, fwd) \in SentenceEndings
           /\ fwd + 1 < Len(t) /\ At(t, fwd + 1) = " "
        THEN fwd + 2
        ELSE IF bwd > 0 /\ At(t, bwd - 1) \in SentenceEndings /\ At(t, bwd) = " "
        THEN bwd
        ELSE NoSplit

WordProbe(t, target_pos, offset) ==
    LET fwd == target_pos + offset
        bwd == target_pos - offset
    IN  IF fwd < Len(t) /\ At(t, fwd) = " "
        THEN fwd + 1
        ELSE IF bwd > 0 /\ At(t, bwd) = " "
        THEN bwd + 1
        ELSE NoSplit

ParagraphSplit(t, target_pos) ==
    LET n     == SearchRange(t, target_pos)
        probe == [o \in 0..(n - 1) |-> ParagraphProbe(t, target_pos, o)]
    IN  FirstHit(probe, n)

SentenceSplit(t, target_pos) ==
    LET n     == SearchRange(t, target_pos)
        probe == [o \in 0..(n - 1) |-> SentenceProbe(t, target_pos, o)]
    IN  FirstHit(probe, n)

WordSplit(t, target_pos) ==
    LET n     == Min2(WordWindow, SearchRange(t, target_pos))
        probe == [o \in 0..(n - 1) |-> WordProbe(t, target_pos, o)]
    IN  FirstHit(probe, n)

FindSplitPoint(c, t, target_pos) ==
    IF c.respect_paragraphs /\ ParagraphSplit(t, target_pos) # NoSplit
    THEN ParagraphSplit(t, target_pos)
    ELSE IF c.respect_sentences /\ SentenceSplit(t, target_pos) # NoSplit
    THEN SentenceSplit(t, target_pos)
    ELSE IF WordSplit(t, target_pos) # NoSplit
    THEN WordSplit(t, target_pos)
    ELSE target_pos

\* ------------------------------------------------------------------------
\* SemanticChunker.chunk
\* ------------------------------------------------------------------------
\* end of the window that starts at s
WindowEnd(c, t, s) ==
    IF s + c.chunk_size >= Len(t) THEN Len(t)
    ELSE FindSplitPoint(c, t, s + c.chunk_size)

NextStartMutant(c, t, s, e) ==
    IF e - c.chunk_overlap <= s THEN e
    ELSE FindSplitPoint(c, t, e - c.chunk_overlap - 1)

\* the cursor after a window [s, e) that did not reach the end of the text
NextStart(c, t, s, e) ==
    IF e - c.chunk_overlap <= s THEN e
    ELSE FindSplitPoint(c, t, e - c.chunk_overlap)

KeepChunkMutant(c, chunk_text) == Len(chunk_text) >= c.min_chunk_size - 1

\* "Only keep chunks above minimum size"
KeepChunk(c, chunk_text) == Len(chunk_text) >= c.min_chunk_size

MakeChunkMutant(chunk_text, idx, s, e) ==
    [text |-> chunk_text, index |-> idx + 1, start_char |-> s, end_char |-> e]

\* Chunk(text=chunk_text, index=chunk_index, start_char=start, end_char=end)
MakeChunk(chunk_text, idx, s, e) ==
    [text |-> chunk_text, index |-> idx, start_char |-> s, end_char |-> e]

\* if not text or not text.strip(): return []; text = text.strip()
ChunkCall ==
    /\ cpc = "call"
    /\ text' = Strip(text)
    /\ start' = 0
    /\ chunks' = <<>>
    /\ chunk_index' = 0
    /\ cpc' = IF Strip(text) = <<>> THEN "done" ELSE "loop"
    /\ UNCHANGED <<cfg, end, para, searchVars, upsertVars, providerVars>>

\* "while start < len(text)": the loop test and one iteration of the body.
\* The list records the first MaxChunks chunks; a call that returns emits
\* fewer (ChunksRecorded), so only a loop that never exits is cut short.
ChunkIteration ==
    /\ cpc = "loop"
    /\ IF start >= Len(text)
       THEN /\ cpc' = "done"
            /\ UNCHANGED <<start, end, chunks, chunk_index>>
       ELSE LET e          == WindowEnd(cfg, text, start)
                chunk_text == Strip(PySlice(text, start, e))
                keep       == KeepChunk(cfg, chunk_text) /\ Len(chunks) < MaxChunks
            IN  /\ end' = e
                /\ chunks' = IF keep
                             THEN Append(chunks, MakeChunk(chunk_text, chunk_index, start, e))
                             ELSE chunks
                /\ chunk_index' = IF keep THEN chunk_index + 1 ELSE chunk_index
                /\ IF e >= Len(text)
                   THEN cpc' = "done" /\ start' = start
                   ELSE cpc' = "loop" /\ start' = NextStart(cfg, text, start, e)
    /\ UNCHANGED <<text, cfg, para, searchVars, upsertVars, providerVars>>

\* ------------------------------------------------------------------------
\* SemanticChunker.chunk_by_paragraphs
\* ------------------------------------------------------------------------
\* number of "\n" among the first n characters of t
RECURSIVE Newlines(_, _)
Newlines(t, n) ==
    IF n = 0 THEN 0 ELSE (IF t[n] = "\n" THEN 1 ELSE 0) + Newlines(t, n - 1)

\* PARAGRAPH_BREAK (\n\s*\n) matches inside a run of whitespace exactly when
\* the run holds two newlines; the pieces are trimmed, so the text splits
\* at the whole run.  t is trimmed and i is past its first character.
RECURSIVE SplitAtBreaks(_, _)
SplitAtBreaks(t, i) ==
    IF i > Len(t) THEN <<t>>
    ELSE IF t[i] \in Whitespace /\ t[i - 1] \notin Whitespace
    THEN LET run == LeadingWs(SubSeq(t, i, Len(t)))
         IN  IF Newlines(SubSeq(t, i, i + run - 1), run) >= 2
             THEN <<SubSeq(t, 1, i - 1)>>
                  \o SplitAtBreaks(SubSeq(t, i + run, Len(t)), 2)
             ELSE SplitAtBreaks(t, i + run)
    ELSE SplitAtBreaks(t, i + 1)

\* _split_into_paragraphs: the trimmed, non-empty pieces between breaks
SplitIntoParagraphs(t) ==
    IF Strip(t) = <<>> THEN <<>> ELSE SplitAtBreaks(Strip(t), 2)

\* "\n\n"
ParagraphJoin == <<"\n", "\n">>

IdlePara ==
    [pc |-> "idle", paragraphs |-> <<>>, current_chunk |-> <<>>, chunks |-> <<>>,
     chunk_index |-> 0, start_char |-> 0]

FitsMutant(c, current_chunk, p) ==
    Len(current_chunk) + Len(p) <= c.chunk_size

\* len(current_chunk) + len(para) + 2 <= self.chunk_size
Fits(c, current_chunk, p) ==
    Len(current_chunk) + Len(p) + 2 <= c.chunk_size

\* if current_chunk and len(current_chunk) >= self.min_chunk_size
KeepBuffer(c, current_chunk) ==
    current_chunk # <<>> /\ Len(current_chunk) >= c.min_chunk_size

\* chunks.append(Chunk(...)); chunk_index += 1; start_char += len + 2
EmitBuffer(st) ==
    [st EXCEPT !.chunks = Append(st.chunks,
                              MakeChunk(st.current_chunk, st.chunk_index,
                                        st.start_char,
                                        st.start_char + Len(st.current_chunk))),
               !.chunk_index = st.chunk_index + 1,
               !.start_char = st.start_char + Len(st.current_chunk) + 2]

\* chunk_by_paragraphs up to the loop
ParaCall ==
    /\ para.pc = "call"
    /\ para' = [IdlePara EXCEPT !.pc = "loop",
                                !.paragraphs = SplitIntoParagraphs(text)]
    /\ UNCHANGED <<text, cfg, start, end, chunks, chunk_index, cpc,
                   searchVars, upsertVars, providerVars>>

\* one iteration of "for para in paragraphs"
ParaIteration ==
    /\ para.pc = "loop"
    /\ para.paragraphs # <<>>
    /\ LET p    == Head(para.paragraphs)
           cur  == para.current_chunk
           next == [para EXCEPT !.paragraphs = Tail(para.paragraphs)]
       IN  para' =
             IF Fits(cfg, cur, p)
             THEN [next EXCEPT !.current_chunk =
                      IF cur # <<>> THEN cur \o ParagraphJoin \o p ELSE p]
             ELSE [(IF KeepBuffer(cfg, cur) THEN EmitBuffer(next) ELSE next)
                      EXCEPT !.current_chunk = p]
    /\ UNCHANGED <<text, cfg, start, end, chunks, chunk_index, cpc,
                   searchVars, upsertVars, providerVars>>

\* "Don't forget the last chunk", and return
ParaFlush ==
    /\ para.pc = "loop"
    /\ para.paragraphs = <<>>
    /\ para' = [(IF KeepBuffer(cfg, para.current_chunk)
                 THEN [EmitBuffer(para) EXCEPT !.start_char = para.start_char,
                                               !.chunk_index = para.chunk_index]
                 ELSE para) EXCEPT !.pc = "done"]
    /\ UNCHANGED <<text, cfg, start, end, chunks, chunk_index, cpc,
                   searchVars, upsertVars, providerVars>>

\* ------------------------------------------------------------------------
\* Scores.  Weights are held in tenths (0.7 is 7); a combined score is an
\* exact fraction <<numerator, denominator>> of that unit.
\* ------------------------------------------------------------------------
Zero == <<0, 1>>
Frac(n, d) == <<n, d>>
RAdd(a, b) == <<a[1] * b[2] + b[1] * a[2], a[2] * b[2]>>
RLess(a, b) == a[1] * b[2] < b[1] * a[2]
REq(a, b) == a[1] * b[2] = b[1] * a[2]

\* a score (in tenths) as a decimal fraction rounded to six places, in
\* millionths
Micro(a) == (2 * a[1] * 100000 + a[2]) \div (2 * a[2])

\* ------------------------------------------------------------------------
\* HybridSearchService
\* ------------------------------------------------------------------------
DefaultVectorWeight == 7
DefaultKeywordWeight == 3
DefaultRrfK == 60
DefaultThreshold == 40

Docs == {"A", "B", "C", "D"}
Nobody == 0
AllReqs == {1, 2}

\* SearchResult as built by _vector_search / _keyword_search
VectorResult(idx, d) ==
    [id |-> d, vector_score |-> idx[d].similarity, keyword_score |-> 0,
     combined_score |-> Zero]

KeywordResult(idx, d) ==
    [id |-> d, vector_score |-> 0, keyword_score |-> idx[d].rank,
     combined_score |-> Zero]

RECURSIVE Orders(_)
Orders(S) ==
    IF S = {} THEN {<<>>}
    ELSE UNION {{<<x>> \o p : p \in Orders(S \ {x})} : x \in S}

Truncate(s, n) == SubSeq(s, 1, Min2(n, Len(s)))

VectorQueryMutant(idx, threshold, limit) ==
    LET sorted == {p \in Orders(Docs) :
                     \A i \in 1..(Len(p) - 1) :
                         idx[p[i]].similarity >= idx[p[i + 1]].similarity}
    IN  {Truncate([i \in 1..Len(p) |-> VectorResult(idx, p[i])], limit) : p \in sorted}

\* ... WHERE similarity >= threshold ORDER BY similarity DESC LIMIT limit;
\* rows of equal similarity come in any order
VectorQuery(idx, threshold, limit) ==
    LET hits == {d \in Docs : idx[d].similarity >= threshold}
        sorted == {p \in Orders(hits) :
                     \A i \in 1..(Len(p) - 1) :
                         idx[p[i]].similarity >= idx[p[i + 1]].similarity}
    IN  {Truncate([i \in 1..Len(p) |-> VectorResult(idx, p[i])], limit) : p \in sorted}

\* ... WHERE content @@ query ORDER BY rank DESC LIMIT limit
KeywordQuery(idx, limit) ==
    LET hits == {d \in Docs : idx[d].rank > 0}
        sorted == {p \in Orders(hits) :
                     \A i \in 1..(Len(p) - 1) :
                         idx[p[i]].rank >= idx[p[i + 1]].rank}
    IN  {Truncate([i \in 1..Len(p) |-> KeywordResult(idx, p[i])], limit) : p \in sorted}

\* results_by_id, a dict in insertion order
HasId(acc, id) == \E i \in 1..Len(acc) : acc[i].id = id
IndexOfId(acc, id) == CHOOSE i \in 1..Len(acc) : acc[i].id = id

\* one loop body of a fusion pass: enter the result if its id is new, add
\* the contribution to the entry of that id and copy the raw score
Accumulate(acc, result, contribution, signal) ==
    LET acc1  == IF HasId(acc, result.id) THEN acc ELSE Append(acc, result)
        i     == IndexOfId(acc1, result.id)
        entry == acc1[i]
        added == [entry EXCEPT !.combined_score = RAdd(entry.combined_score, contribution)]
    IN  [acc1 EXCEPT ![i] =
            IF signal = "vector"
            THEN [added EXCEPT !.vector_score = result.vector_score]
            ELSE [added EXCEPT !.keyword_score = result.keyword_score]]

RrfContributionMutant(weight, rrf_k, rank) == Frac(weight, rrf_k + rank - 1)

\* weight / (self.rrf_k + rank)
RrfContribution(weight, rrf_k, rank) == Frac(weight, rrf_k + rank)

RECURSIVE RrfPass(_, _, _, _, _, _)
RrfPass(acc, results, rank, weight, rrf_k, signal) ==
    IF results = <<>> THEN acc
    ELSE RrfPass(Accumulate(acc, Head(results),
                            RrfContribution(weight, rrf_k, rank), signal),
                 Tail(results), rank + 1, weight, rrf_k, signal)

ReciprocalRankFusionMutant(s, vector_results, keyword_results) ==
    RrfPass(RrfPass(<<>>, vector_results, 1, s.vector_weight, s.rrf_k, "vector"),
            keyword_results, 1, s.vector_weight, s.rrf_k, "keyword")

\* _reciprocal_rank_fusion: the vector pass, then the keyword pass
ReciprocalRankFusion(s, vector_results, keyword_results) ==
    RrfPass(RrfPass(<<>>, vector_results, 1, s.vector_weight, s.rrf_k, "vector"),
            keyword_results, 1, s.keyword_weight, s.rrf_k, "keyword")

RECURSIVE MaxScore(_, _)
MaxScore(results, signal) ==
    IF results = <<>> THEN 0
    ELSE Max2(IF signal = "vector" THEN Head(results).vector_score
              ELSE Head(results).keyword_score,
              MaxScore(Tail(results), signal))

WeightedContributionMutant(weight, score, max) ==
    IF max > 0 THEN Frac(weight * score, max) ELSE Frac(weight, 1)

\* weight * (score / max) if max > 0 else weight * 0
WeightedContribution(weight, score, max) ==
    IF max > 0 THEN Frac(weight * score, max) ELSE Zero

RECURSIVE WeightedPass(_, _, _, _, _)
WeightedPass(acc, results, max, weight, signal) ==
    IF results = <<>> THEN acc
    ELSE LET r == Head(results)
             score == IF signal = "vector" THEN r.vector_score ELSE r.keyword_score
         IN  WeightedPass(Accumulate(acc, r, WeightedContribution(weight, score, max), signal),
                          Tail(results), max, weight, signal)

WeightedCombination(s, vector_results, keyword_results) ==
    WeightedPass(WeightedPass(<<>>, vector_results, MaxScore(vector_results, "vector"),
                              s.vector_weight, "vector"),
                 keyword_results, MaxScore(keyword_results, "keyword"),
                 s.keyword_weight, "keyword")

\* list.sort(key=combined_score, reverse=True): stable, equal scores keep
\* their order
RECURSIVE InsertDesc(_, _)
InsertDesc(sorted, x) ==
    IF sorted = <<>> THEN <<x>>
    ELSE IF RLess(Head(sorted).combined_score, x.combined_score)
    THEN <<x>> \o sorted
    ELSE <<Head(sorted)>> \o InsertDesc(Tail(sorted), x)

RECURSIVE SortDesc(_)
SortDesc(s) ==
    IF s = <<>> THEN <<>>
    ELSE InsertDesc(SortDesc(SubSeq(s, 1, Len(s) - 1)), s[Len(s)])

\* combined[:limit]
LimitSlice(combined, limit) == Truncate(combined, limit)

SortAndLimitMutant(combined, limit) == LimitSlice(combined, limit)

\* combined.sort(...); return combined[:limit]
SortAndLimit(combined, limit) == LimitSlice(SortDesc(combined), limit)

Combine(s, use_reranking, vector_results, keyword_results) ==
    IF use_reranking
    THEN ReciprocalRankFusion(s, vector_results, keyword_results)
    ELSE WeightedCombination(s, vector_results, keyword_results)

\* ------------------------------------------------------------------------
\* Requests.  Handlers are coroutines on one event loop: a handler runs
\* until it awaits the embedding request, and the store queries (psycopg,
\* synchronous) and the fusion run without yielding.
\* ------------------------------------------------------------------------
\* query texts: a letter, punctuation, the underscore and the space
QueryAlphabet == {"a", ".", "_", " "}

\* \w and \s of the regular expression, within QueryAlphabet
WordCharacters == {"a", "_"}
SpaceCharacters == {" "}

\* re.sub(r'[^\w\s]', ' ', query)
Clean(q) ==
    [i \in 1..Len(q) |->
        IF q[i] \in WordCharacters \cup SpaceCharacters THEN q[i] ELSE " "]

\* str.split(): the maximal runs of non-space characters
RECURSIVE SplitWords(_, _)
SplitWords(t, word) ==
    IF t = <<>> THEN (IF word = <<>> THEN <<>> ELSE <<word>>)
    ELSE IF Head(t) \in SpaceCharacters
    THEN (IF word = <<>> THEN <<>> ELSE <<word>>) \o SplitWords(Tail(t), <<>>)
    ELSE SplitWords(Tail(t), Append(word, Head(t)))

\* ' | '.join(words)
RECURSIVE JoinOr(_)
JoinOr(words) ==
    IF words = <<>> THEN <<>>
    ELSE IF Len(words) = 1 THEN words[1]
    ELSE words[1] \o <<" ", "|", " ">> \o JoinOr(Tail(words))

\* _preprocess_query
PreprocessQuery(q) == JoinOr(SplitWords(Clean(q), <<>>))

\* Query(..., min_length=2)
MinQueryLength == 2
DefaultQuery == <<"a", "a">>

TooShortMutant(q) == Len(q) < MinQueryLength - 1

\* the validation of q fails: 422 before the handler runs
TooShort(q) == Len(q) < MinQueryLength

IdleReq ==
    [pc |-> "idle", via_api |-> FALSE, vector_weight |-> 0, keyword_weight |-> 0,
     limit |-> 0, threshold |-> 0, use_reranking |-> TRUE, embedding |-> "none",
     vector_results |-> <<>>, keyword_results |-> <<>>, combined |-> <<>>,
     response |-> <<>>, pool_ok |-> FALSE, vector_query |-> "none",
     keyword_query |-> "none", conns |-> 0, query |-> <<>>, called |-> FALSE,
     rejected |-> FALSE]

WeightPairs == {<<DefaultVectorWeight, DefaultKeywordWeight>>,
                <<DefaultKeywordWeight, DefaultVectorWeight>>}
Limits == {1, MaxLimit}
Thresholds == {DefaultThreshold, 75}

\* search_documents up to the await in _vector_search: no pool -> []
EnterSearch(r, call, pool_ok) ==
    /\ req' = [req EXCEPT ![r] =
                 IF pool_ok
                 THEN [call EXCEPT !.pc = "embedding", !.pool_ok = TRUE,
                                   !.called = TRUE]
                 ELSE [call EXCEPT !.pc = "done", !.called = TRUE]]
    /\ running' = Nobody

\* GET /search/hybrid with a query from the given set: a query shorter
\* than min_length is answered by the parameter validation; otherwise the
\* handler stores the request's weights in the singleton service and calls
\* search_documents
HybridSearchWith(r, queries) ==
    /\ running = Nobody
    /\ req[r].pc = "idle"
    /\ \E q \in queries, w \in WeightPairs, limit \in Limits,
          threshold \in Thresholds, pool_ok \in BOOLEAN :
          IF TooShort(q)
          THEN /\ req' = [req EXCEPT ![r] =
                            [IdleReq EXCEPT !.pc = "done", !.via_api = TRUE,
                                            !.query = q, !.rejected = TRUE]]
               /\ UNCHANGED <<svc, running>>
          ELSE /\ svc' = [svc EXCEPT !.vector_weight = w[1], !.keyword_weight = w[2]]
               /\ EnterSearch(r, [IdleReq EXCEPT !.via_api = TRUE,
                                                 !.query = q,
                                                 !.vector_weight = w[1],
                                                 !.keyword_weight = w[2],
                                                 !.limit = limit,
                                                 !.threshold = threshold,
                                                 !.use_reranking = TRUE], pool_ok)
    /\ UNCHANGED <<index, api, chunkVars, upsertVars, providerVars>>

HybridSearch(r) == HybridSearchWith(r, {DefaultQuery})

\* search_documents called on the service directly, with either strategy
\* and a threshold and a query from the given sets
SearchDocumentsAt(r, thresholds, queries) ==
    /\ running = Nobody
    /\ req[r].pc = "idle"
    /\ \E q \in queries, limit \in Limits, threshold \in thresholds,
          rerank \in BOOLEAN, pool_ok \in BOOLEAN :
          EnterSearch(r, [IdleReq EXCEPT !.query = q,
                                         !.vector_weight = svc.vector_weight,
                                         !.keyword_weight = svc.keyword_weight,
                                         !.limit = limit,
                                         !.threshold = threshold,
                                         !.use_reranking = rerank], pool_ok)
    /\ UNCHANGED <<index, api, svc, chunkVars, upsertVars, providerVars>>

SearchDocuments(r) == SearchDocumentsAt(r, Thresholds, {DefaultQuery})

\* the awaited _get_embedding returns a vector or None
EmbeddingReturns(r) ==
    /\ running = Nobody
    /\ req[r].pc = "embedding"
    /\ \E e \in {"vector", "absent"} :
          req' = [req EXCEPT ![r].embedding = e, ![r].pc = "embedded"]
    /\ running' = r
    /\ UNCHANGED <<index, api, svc, chunkVars, upsertVars, providerVars>>

\* "with pool.connection() as conn:" around one query: the connection is
\* taken from the pool, and given back when the block is left, by its end,
\* by a return or by an exception
Acquire(c) == [c EXCEPT !.conns = @ + 1]

ReleaseMutant(c) == c

Release(c) == [c EXCEPT !.conns = @ - 1]

WithConnection(c) == Release(Acquire(c))

NoResultsMutant == <<[id |-> "A", vector_score |-> 0, keyword_score |-> 0,
                      combined_score |-> Zero]>>

\* "return []": no embedding, or the query raised
NoResults == <<>>

VectorSearchOutcomeMutant(embedding, ok) == IF ok THEN "ran" ELSE "failed"

\* _vector_search after the await: "if not embedding: return []", else the
\* query runs, or raises
VectorSearchOutcome(embedding, ok) ==
    IF embedding # "vector" THEN "skipped" ELSE IF ok THEN "ran" ELSE "failed"

\* _keyword_search: the query runs, or raises
\* _keyword_search: no term -> [] before any query; query error -> []
KeywordSearchOutcome(query, ok) ==
    IF PreprocessQuery(query) = <<>> THEN "skipped"
    ELSE IF ok THEN "ran" ELSE "failed"

FuseReadyMutant(c) == c.pc \in {"vector_done", "keyword_done"}

\* search_documents goes on to the fusion when _keyword_search has returned
FuseReady(c) == c.pc = "keyword_done"

\* _vector_search after the embedding: no embedding -> [], query error -> []
VectorRead(r) ==
    /\ running = r
    /\ req[r].pc = "embedded"
    /\ \E ok \in BOOLEAN :
          LET outcome == VectorSearchOutcome(req[r].embedding, ok)
          IN  \E rows \in IF outcome = "ran"
                          THEN VectorQuery(index, req[r].threshold, req[r].limit * 2)
                          ELSE {NoResults} :
                  LET c == [req[r] EXCEPT !.vector_results = rows,
                                          !.vector_query = outcome,
                                          !.pc = "vector_done"]
                  IN  req' = [req EXCEPT ![r] = IF outcome = "skipped" THEN c
                                                ELSE WithConnection(c)]
    /\ UNCHANGED <<index, api, svc, running, chunkVars, upsertVars, providerVars>>

\* _keyword_search: query error -> []
KeywordRead(r) ==
    /\ running = r
    /\ req[r].pc = "vector_done"
    /\ \E ok \in BOOLEAN :
          LET outcome == KeywordSearchOutcome(req[r].query, ok)
          IN  \E rows \in IF outcome = "ran"
                          THEN KeywordQuery(index, req[r].limit * 2)
                          ELSE {NoResults} :
                  LET c == [req[r] EXCEPT !.keyword_results = rows,
                                          !.keyword_query = outcome,
                                          !.pc = "keyword_done"]
                  IN  req' = [req EXCEPT ![r] = IF outcome = "skipped" THEN c
                                                ELSE WithConnection(c)]
    /\ UNCHANGED <<index, api, svc, running, chunkVars, upsertVars, providerVars>>

\* the rest of search_documents: both empty -> [], else fuse, sort, limit
Fuse(r) ==
    /\ running = r
    /\ FuseReady(req[r])
    /\ LET vr == req[r].vector_results
           kr == req[r].keyword_results
           combined == IF vr = <<>> /\ kr = <<>> THEN <<>>
                       ELSE Combine(svc, req[r].use_reranking, vr, kr)
       IN  req' = [req EXCEPT ![r].combined = combined,
                              ![r].response = SortAndLimit(combined, req[r].limit),
                              ![r].pc = "done"]
    /\ running' = Nobody
    /\ UNCHANGED <<index, api, svc, chunkVars, upsertVars, providerVars>>

\* the response is delivered
Respond(r) ==
    /\ req[r].pc = "done"
    /\ req' = [req EXCEPT ![r] = IdleReq]
    /\ UNCHANGED <<index, api, svc, running, chunkVars, upsertVars, providerVars>>

SearchStep(r) ==
    \/ HybridSearch(r)
    \/ SearchDocuments(r)
    \/ EmbeddingReturns(r)
    \/ VectorRead(r)
    \/ KeywordRead(r)
    \/ Fuse(r)
    \/ Respond(r)

\* ------------------------------------------------------------------------
\* VectorService: the embedding tables and the upserts
\* ------------------------------------------------------------------------
None == "None"

\* Optional[list[float]]: None, or a list
NoneEmbedding == [some |-> FALSE, v |-> <<>>]
ListEmbedding(v) == [some |-> TRUE, v |-> v]
Vectors == {<<1, 0>>, <<0, 1>>}
IsZeroVector(v) == \A i \in 1..Len(v) : v[i] = 0

\* what the awaited _get_embedding can return: None (provider failed, or
\* the reply has no "embedding"), an empty list, or a vector
ProviderOutcomes ==
    {NoneEmbedding, ListEmbedding(<<>>)} \cup {ListEmbedding(v) : v \in Vectors}

TruthyMutant(e) == TRUE

\* `if embedding` / `if not embedding`
Truthy(e) == e.some /\ Len(e.v) > 0

\* the pieces the embedded content is built from
Tokens ==
    <<"Concept: ", "\nDescription: ", "DSRP Analysis (", "):\n", "\nElements: ",
      "n", "d", "D", "e", "x", "y", " ">>
TokenCode(t) == CHOOSE i \in 1..Len(Tokens) : Tokens[i] = t
HashBase == Len(Tokens) + 1

\* _compute_hash: a digest of the content, distinct for distinct contents
RECURSIVE ComputeHash(_)
ComputeHash(content) ==
    IF content = <<>> THEN 0
    ELSE ComputeHash(SubSeq(content, 1, Len(content) - 1)) * HashBase
            + TokenCode(content[Len(content)])

\* f"Concept: {concept_name}" and, if description, "\nDescription: {description}"
ConceptContent(concept_name, description) ==
    <<"Concept: ", concept_name>>
        \o (IF description # None /\ description # ""
            THEN <<"\nDescription: ", description>> ELSE <<>>)

\* f"DSRP Analysis ({move_type}):\n{reasoning}" and, if elements, "\nElements: {elements}"
AnalysisContent(move_type, reasoning, elements) ==
    <<"DSRP Analysis (", move_type, "):\n", reasoning>>
        \o (IF elements # None THEN <<"\nElements: ", elements>> ELSE <<>>)

\* embed_source_chunks: the chunks of text[start:], blank ones left out
RECURSIVE SimpleChunks(_, _, _, _)
SimpleChunks(t, s, chunk_size, chunk_overlap) ==
    IF s >= Len(t) THEN <<>>
    ELSE LET e     == s + chunk_size
             chunk == PySlice(t, s, e)
             rest  == SimpleChunks(t, e - chunk_overlap, chunk_size, chunk_overlap)
         IN  IF Strip(chunk) # <<>> THEN <<chunk>> \o rest ELSE rest

ConceptIds == {"c1", "c2"}
ConceptNames == {"n"}
Descriptions == {None, "", "d"}
AnalysisIds == {"a1"}
MoveTypes == {"D"}
Reasonings == {"x"}
ElementSets == {None, "e"}
ChunkIds == {"k1"}
ChunkContents == {<<"x">>, <<"y">>}
SourceIds == {"s1"}
SourceTexts == SeqsUpTo({"x", " "}, MaxSourceLen) \ {<<>>}
SourceChunking == [chunk_size |-> 2, chunk_overlap |-> 1]
Upserters == {1, 2}

\* the key of a row: concept_id, analysis_id, (source_id, chunk_index), chunk_id
Key(kind, id, n) == [kind |-> kind, id |-> id, chunk_index |-> n]
Owners ==
    {Key("concept", c, 0) : c \in ConceptIds}
        \cup {Key("analysis", a, 0) : a \in AnalysisIds}
        \cup {Key("source_chunk", s, i) : s \in SourceIds, i \in 0..(MaxSourceLen - 1)}
        \cup {Key("document_chunk", k, 0) : k \in ChunkIds}

NoRow ==
    [present |-> FALSE, content |-> <<>>, content_hash |-> 0, embedding |-> NoneEmbedding]
RowMutant(content, content_hash, embedding) ==
    [present |-> TRUE, content |-> content, content_hash |-> 0,
     embedding |-> embedding]

\* the columns an upsert sets, on insert and on conflict alike
Row(content, content_hash, embedding) ==
    [present |-> TRUE, content |-> content, content_hash |-> content_hash,
     embedding |-> embedding]

HashIsCurrentMutant(row, content_hash) ==
    row.present /\ row.content_hash = content_hash + 1

\* `row and row[0] == content_hash`
HashIsCurrent(row, content_hash) ==
    row.present /\ row.content_hash = content_hash

IdleUpsert ==
    [pc |-> "idle", call |-> 0, kind |-> "concept", id |-> "c1", chunks |-> <<>>,
     i |-> 0, content |-> <<>>, content_hash |-> 0, lookup |-> "none",
     embedding |-> NoneEmbedding, exit |-> "none", ok |-> FALSE, embedded_count |-> 0,
     conns |-> 0]

NoCall == [valid |-> FALSE, kind |-> "concept", id |-> "c1", content |-> <<>>, ok |-> FALSE]
Summary(c) ==
    [valid |-> TRUE, kind |-> c.kind, id |-> c.id, content |-> c.content, ok |-> c.ok]

\* the row the call is about
Target(c) == Key(c.kind, c.id, c.i)

\* a call starts; the one before it has returned
StartCall(u) ==
    /\ up[u].pc \in {"idle", "done"}
    /\ upserts < MaxUpserts
    /\ upserts' = upserts + 1
    /\ prev' = IF up[u].pc = "done" THEN Summary(up[u]) ELSE prev

\* _get_pool(): the pool, once created, is kept; creating it can fail
GetPool(pool_now) ==
    /\ pool_now \in (IF pool THEN {TRUE} ELSE BOOLEAN)
    /\ pool' = pool_now

Return(c, exit, ok) == [c EXCEPT !.pc = "done", !.exit = exit, !.ok = ok]

\* embed_concept / embed_document_chunk up to the await: no pool -> False;
\* the stored hash is the content's -> True; a failed lookup is logged and
\* the call goes on to embed
CheckThenEmbed(u, call, pool_now, lookup_ok) ==
    IF ~pool_now
    THEN /\ up' = [up EXCEPT ![u] = Return(call, "no_pool", FALSE)]
         /\ UNCHANGED provider_calls
    ELSE IF lookup_ok /\ HashIsCurrent(store[Target(call)], call.content_hash)
    THEN /\ up' = [up EXCEPT ![u] =
                     Return(WithConnection([call EXCEPT !.lookup = "current"]),
                            "current", TRUE)]
         /\ UNCHANGED provider_calls
    ELSE /\ up' = [up EXCEPT ![u] =
                     [WithConnection(call) EXCEPT !.pc = "embedding",
                                  !.lookup = IF lookup_ok THEN "stale" ELSE "error"]]
         /\ provider_calls' = provider_calls + 1

\* after the await: no embedding -> False; the row is written and True is
\* returned; a failed write is logged and False is returned
StoreOrFail(u, e, write_ok) ==
    LET c == [up[u] EXCEPT !.embedding = e]
    IN  IF ~Truthy(e)
        THEN /\ up' = [up EXCEPT ![u] = Return(c, "no_embedding", FALSE)]
             /\ UNCHANGED <<store, store_writes>>
        ELSE IF write_ok
        THEN /\ store' = [store EXCEPT ![Target(c)] = Row(c.content, c.content_hash, e)]
             /\ store_writes' = store_writes + 1
             /\ up' = [up EXCEPT ![u] = Return(WithConnection(c), "stored", TRUE)]
        ELSE /\ up' = [up EXCEPT ![u] = Return(WithConnection(c), "store_failed", FALSE)]
             /\ UNCHANGED <<store, store_writes>>

EmbedConcept(u) ==
    /\ StartCall(u)
    /\ \E concept_id \in ConceptIds, concept_name \in ConceptNames,
          description \in Descriptions, pool_now \in BOOLEAN, lookup_ok \in BOOLEAN :
          LET content == ConceptContent(concept_name, description)
          IN  /\ GetPool(pool_now)
              /\ CheckThenEmbed(u, [IdleUpsert EXCEPT !.call = upserts',
                                                      !.kind = "concept",
                                                      !.id = concept_id,
                                                      !.content = content,
                                                      !.content_hash = ComputeHash(content)],
                                pool_now, lookup_ok)
    /\ UNCHANGED <<store, store_writes, chunkVars, searchVars, providerVars>>

EmbedConceptStore(u) ==
    /\ up[u].pc = "embedding"
    /\ up[u].kind = "concept"
    /\ \E e \in ProviderOutcomes, write_ok \in BOOLEAN : StoreOrFail(u, e, write_ok)
    /\ UNCHANGED <<pool, prev, provider_calls, upserts, chunkVars, searchVars, providerVars>>

EmbedDocumentChunk(u) ==
    /\ StartCall(u)
    /\ \E chunk_id \in ChunkIds, content \in ChunkContents,
          pool_now \in BOOLEAN, lookup_ok \in BOOLEAN :
          /\ GetPool(pool_now)
          /\ CheckThenEmbed(u, [IdleUpsert EXCEPT !.call = upserts',
                                                  !.kind = "document_chunk",
                                                  !.id = chunk_id,
                                                  !.content = content,
                                                  !.content_hash = ComputeHash(content)],
                            pool_now, lookup_ok)
    /\ UNCHANGED <<store, store_writes, chunkVars, searchVars, providerVars>>

EmbedDocumentChunkStore(u) ==
    /\ up[u].pc = "embedding"
    /\ up[u].kind = "document_chunk"
    /\ \E e \in ProviderOutcomes, write_ok \in BOOLEAN : StoreOrFail(u, e, write_ok)
    /\ UNCHANGED <<pool, prev, provider_calls, upserts, chunkVars, searchVars, providerVars>>

\* embed_analysis up to the await: no pool -> False, else the content is embedded
EmbedAnalysis(u) ==
    /\ StartCall(u)
    /\ \E analysis_id \in AnalysisIds, move_type \in MoveTypes, reasoning \in Reasonings,
          elements \in ElementSets, pool_now \in BOOLEAN :
          LET content == AnalysisContent(move_type, reasoning, elements)
              call    == [IdleUpsert EXCEPT !.call = upserts',
                                            !.kind = "analysis",
                                            !.id = analysis_id,
                                            !.content = content,
                                            !.content_hash = ComputeHash(content)]
          IN  /\ GetPool(pool_now)
              /\ IF ~pool_now
                 THEN /\ up' = [up EXCEPT ![u] = Return(call, "no_pool", FALSE)]
                      /\ UNCHANGED provider_calls
                 ELSE /\ up' = [up EXCEPT ![u] = [call EXCEPT !.pc = "embedding"]]
                      /\ provider_calls' = provider_calls + 1
    /\ UNCHANGED <<store, store_writes, chunkVars, searchVars, providerVars>>

EmbedAnalysisStore(u) ==
    /\ up[u].pc = "embedding"
    /\ up[u].kind = "analysis"
    /\ \E e \in ProviderOutcomes, write_ok \in BOOLEAN : StoreOrFail(u, e, write_ok)
    /\ UNCHANGED <<pool, prev, provider_calls, upserts, chunkVars, searchVars, providerVars>>

\* embed_source_chunks up to the first await: no pool -> 0; no chunk -> 0;
\* else the first chunk is embedded
EmbedSourceChunks(u) ==
    /\ StartCall(u)
    /\ \E source_id \in SourceIds, t \in SourceTexts, pool_now \in BOOLEAN :
          LET cs   == SimpleChunks(t, 0, SourceChunking.chunk_size,
                                   SourceChunking.chunk_overlap)
              call == [IdleUpsert EXCEPT !.call = upserts',
                                         !.kind = "source_chunk",
                                         !.id = source_id,
                                         !.chunks = cs]
          IN  /\ GetPool(pool_now)
              /\ IF ~pool_now
                 THEN /\ up' = [up EXCEPT ![u] = Return(call, "no_pool", FALSE)]
                      /\ UNCHANGED provider_calls
                 ELSE IF cs = <<>>
                 THEN /\ up' = [up EXCEPT ![u] = Return(call, "counted", FALSE)]
                      /\ UNCHANGED provider_calls
                 ELSE /\ up' = [up EXCEPT ![u] =
                                  [call EXCEPT !.pc = "embedding",
                                               !.content = cs[1],
                                               !.content_hash = ComputeHash(cs[1])]]
                      /\ provider_calls' = provider_calls + 1
    /\ UNCHANGED <<store, store_writes, chunkVars, searchVars, providerVars>>

CountedMutant(c, written) == [c EXCEPT !.embedded_count = @ + 1]

\* embedded_count += 1 after the commit, and only then
Counted(c, written) ==
    [c EXCEPT !.embedded_count = IF written THEN @ + 1 ELSE @]

\* one turn of the loop over the chunks, after its await: the row is written
\* if there is an embedding, a failed write is logged, and the next chunk is
\* embedded or the count is returned
EmbedSourceChunkStore(u) ==
    /\ up[u].pc = "embedding"
    /\ up[u].kind = "source_chunk"
    /\ \E e \in ProviderOutcomes, write_ok \in BOOLEAN :
          LET got     == [up[u] EXCEPT !.embedding = e]
              c       == IF Truthy(e) THEN WithConnection(got) ELSE got
              written == Truthy(e) /\ write_ok
              counted == Counted(c, written)
              next    == c.i + 1
          IN  /\ IF written
                 THEN /\ store' = [store EXCEPT ![Target(c)] =
                                      Row(c.content, c.content_hash, e)]
                      /\ store_writes' = store_writes + 1
                 ELSE UNCHANGED <<store, store_writes>>
              /\ IF next < Len(c.chunks)
                 THEN /\ up' = [up EXCEPT ![u] =
                                  [counted EXCEPT !.i = next,
                                                  !.content = c.chunks[next + 1],
                                                  !.content_hash =
                                                      ComputeHash(c.chunks[next + 1])]]
                      /\ provider_calls' = provider_calls + 1
                 ELSE /\ up' = [up EXCEPT ![u] = Return(counted, "counted", FALSE)]
                      /\ UNCHANGED provider_calls
    /\ UNCHANGED <<pool, prev, upserts, chunkVars, searchVars, providerVars>>

UpsertStep(u) ==
    \/ EmbedConcept(u)
    \/ EmbedConceptStore(u)
    \/ EmbedDocumentChunk(u)
    \/ EmbedDocumentChunkStore(u)
    \/ EmbedAnalysis(u)
    \/ EmbedAnalysisStore(u)
    \/ EmbedSourceChunks(u)
    \/ EmbedSourceChunkStore(u)

\* ------------------------------------------------------------------------
\* _get_embedding of VectorService and of HybridSearchService: the same
\* code in both, each with its own cached OpenAI client
\* ------------------------------------------------------------------------
Services == {"vector_service", "hybrid_search_service"}

\* what client.embeddings.create can do: return a vector, or raise
OpenAIOutcomes == {NoneEmbedding} \cup {ListEmbedding(v) : v \in Vectors}

IdleEmbed ==
    [pc |-> "idle", openai |-> "none", ollama |-> "none",
     ollama_result |-> NoneEmbedding, result |-> NoneEmbedding]

\* _get_embedding up to its first request.  USE_OPENAI: _get_openai()
\* returns the cached client or tries to create one; without a client the
\* call falls back to Ollama; with one it calls OpenAI.  Otherwise Ollama.
GetEmbedding(s) ==
    /\ emb[s].pc \in {"idle", "done"}
    /\ embed_calls < MaxEmbedCalls
    /\ embed_calls' = embed_calls + 1
    /\ IF use_openai
       THEN \E created \in BOOLEAN :
              LET client == openai_client[s] \/ created
              IN  /\ openai_client' = [openai_client EXCEPT ![s] = client]
                  /\ emb' = [emb EXCEPT ![s] =
                               IF client
                               THEN [IdleEmbed EXCEPT !.pc = "openai", !.openai = "called"]
                               ELSE [IdleEmbed EXCEPT !.pc = "ollama", !.openai = "no_client",
                                                      !.ollama = "called"]]
       ELSE /\ emb' = [emb EXCEPT ![s] = [IdleEmbed EXCEPT !.pc = "ollama",
                                                           !.ollama = "called"]]
            /\ UNCHANGED openai_client
    /\ UNCHANGED <<use_openai, chunkVars, searchVars, upsertVars>>

\* client.embeddings.create returned response.data[0].embedding, or raised:
\* the error is logged and None is returned
OpenAIReturn(c, e) ==
    IF e = NoneEmbedding
    THEN [c EXCEPT !.pc = "done", !.openai = "failed", !.result = NoneEmbedding]
    ELSE [c EXCEPT !.pc = "done", !.openai = "returned", !.result = e]

OpenAIReturns(s) ==
    /\ emb[s].pc = "openai"
    /\ \E e \in OpenAIOutcomes : emb' = [emb EXCEPT ![s] = OpenAIReturn(emb[s], e)]
    /\ UNCHANGED <<use_openai, openai_client, embed_calls, chunkVars, searchVars, upsertVars>>

\* _get_ollama_embedding returned data.get("embedding"), or None on an error
OllamaReturns(s) ==
    /\ emb[s].pc = "ollama"
    /\ \E e \in ProviderOutcomes :
          emb' = [emb EXCEPT ![s] = [@ EXCEPT !.pc = "done", !.ollama = "returned",
                                              !.ollama_result = e, !.result = e]]
    /\ UNCHANGED <<use_openai, openai_client, embed_calls, chunkVars, searchVars, upsertVars>>

ProviderStep(s) ==
    \/ GetEmbedding(s)
    \/ OpenAIReturns(s)
    \/ OllamaReturns(s)

\* ------------------------------------------------------------------------
\* Initial states and specifications
\* ------------------------------------------------------------------------
DocOrder == <<"A", "B", "C", "D">>
DocPos(d) == CHOOSE i \in 1..Len(DocOrder) : DocOrder[i] = d
SimScale == <<90, 80, 70, 60>>
LowSim == 30

\* the rows as the query sees them: the first k rows (in the order of their
\* names) are similar to the query, each less than the one before, the
\* others are not; every row has any keyword rank, 0 meaning no match
SimProfile(k, d) == IF DocPos(d) <= k THEN SimScale[DocPos(d)] ELSE LowSim

SearchIndexes ==
    {[d \in Docs |-> [similarity |-> SimProfile(k, d), rank |-> rk[d]]] :
        k \in 0..Len(DocOrder), rk \in [Docs -> 0..MaxRank]}

\* vector ranking A, B, C and keyword ranking B, then A and D
ScenarioIndex ==
    [d \in Docs |->
        [similarity |-> SimProfile(3, d),
         rank |-> IF d = "B" THEN 2 ELSE IF d = "C" THEN 0 ELSE 1]]

ConcIndexes == {ScenarioIndex}

DefaultService ==
    [vector_weight |-> DefaultVectorWeight, keyword_weight |-> DefaultKeywordWeight,
     rrf_k |-> DefaultRrfK]

UpsertIdle ==
    /\ pool = FALSE
    /\ store = [k \in Owners |-> NoRow]
    /\ up = [u \in Upserters |-> IdleUpsert]
    /\ prev = NoCall
    /\ provider_calls = 0
    /\ store_writes = 0
    /\ upserts = 0

ProviderIdle ==
    /\ use_openai = FALSE
    /\ openai_client = [s \in Services |-> FALSE]
    /\ emb = [s \in Services |-> IdleEmbed]
    /\ embed_calls = 0

\* ------------------------------------------------------------------------
\* api/search.py: GET /search/concepts and /search/analyses, answered
\* through CacheService.get_search_results / set_search_results
\* ------------------------------------------------------------------------
ApiQueries == {"aa"}
MoveFilters == {None, "zoom-in"}
ApiThresholds == {40, 80}
Endpoints == {"concepts", "analyses"}

\* rows of concept_embeddings and of analysis_embeddings (with move_type)
ConceptRows == {"c1", "c2", "c3"}
AnalysisRows == {"a1", "a2", "a3"}
MoveType == [a1 |-> "zoom-in", a2 |-> "zoom-out", a3 |-> "zoom-in"]

\* 1 - (embedding <=> query_embedding), in percent, for the query "aa"
SimilarityTo(q) ==
    [c1 |-> 90, c2 |-> 70, c3 |-> 50, a1 |-> 85, a2 |-> 95, a3 |-> 45]

\* ORDER BY similarity DESC
RECURSIVE OrderBySimilarity(_, _)
OrderBySimilarity(rows, sim) ==
    IF rows = {} THEN <<>>
    ELSE LET top == CHOOSE r \in rows : \A o \in rows : sim[o] <= sim[r]
         IN  <<top>> \o OrderBySimilarity(rows \ {top}, sim)

\* WHERE similarity >= threshold ORDER BY similarity DESC LIMIT limit
SelectSimilar(rows, sim, limit, threshold) ==
    LET ordered == OrderBySimilarity({r \in rows : sim[r] >= threshold}, sim)
    IN  SubSeq(ordered, 1, Min2(limit, Len(ordered)))

\* SearchResult(id=..., similarity=..., type=...)
SearchResults(ids, sim, type) ==
    [i \in 1..Len(ids) |-> [id |-> ids[i], similarity |-> sim[ids[i]], type |-> type]]

\* vector_service.search_concepts: [] without a pool or an embedding
VectorSearchConcepts(q, limit, threshold, ok) ==
    IF ~ok THEN <<>>
    ELSE SearchResults(SelectSimilar(ConceptRows, SimilarityTo(q), limit, threshold),
                       SimilarityTo(q), "concept")

\* vector_service.search_analyses: the same with "WHERE move_type = %s AND"
VectorSearchAnalyses(q, move, limit, threshold, ok) ==
    LET rows == IF move = None THEN AnalysisRows
                ELSE {r \in AnalysisRows : MoveType[r] = move}
    IN  IF ~ok THEN <<>>
        ELSE SearchResults(SelectSimilar(rows, SimilarityTo(q), limit, threshold),
                           SimilarityTo(q), "analysis")

\* cache_key = f"{q}:{move}" if move else q
AnalysisCacheKey(q, move) ==
    IF move = None THEN q ELSE "aa:zoom-in"

\* hashlib.md5(query.encode()).hexdigest()[:12]
HashQuery(query) ==
    CASE query = "aa" -> "4124bc0a9335"
      [] query = "aa:zoom-in" -> "06195475662a"

PREFIX_SEARCH == "dsrp:search:"

\* _make_key(PREFIX_SEARCH, search_type, query_hash)
MakeKey(search_type, query_hash) == <<PREFIX_SEARCH, search_type, query_hash>>

SearchCacheKey(query, search_type) == MakeKey(search_type, HashQuery(query))

CacheKeys ==
    {SearchCacheKey(q, "concepts") : q \in ApiQueries}
        \cup {SearchCacheKey(AnalysisCacheKey(q, m), "analyses") :
                 q \in ApiQueries, m \in MoveFilters}

NoEntry == [present |-> FALSE, value |-> <<>>]

\* the key and search type the endpoint passes to the cache
EndpointKey(a) ==
    IF a.endpoint = "concepts" THEN SearchCacheKey(a.q, "concepts")
    ELSE SearchCacheKey(AnalysisCacheKey(a.q, a.move), "analyses")

\* CacheService.get_search_results: None without Redis or without the key
GetSearchResults(cache, key, redis) ==
    IF redis /\ cache[key].present THEN cache[key] ELSE NoEntry

\* CacheService.set_search_results: setex(key, ttl, json) when Redis answers
SetSearchResults(cache, key, results, redis) ==
    IF redis THEN [cache EXCEPT ![key] = [present |-> TRUE, value |-> results]]
    ELSE cache

\* "if cached_results:" is false for None and for an empty list
CachedTruthy(entry) == entry.present /\ entry.value # <<>>

IdleApi ==
    [cache |-> [k \in CacheKeys |-> NoEntry], pc |-> "idle",
     endpoint |-> "concepts", q |-> "aa", move |-> None,
     limit |-> 1, threshold |-> 40, hit |-> FALSE, response |-> <<>>]

\* search_concepts / search_analyses up to the first await of the vector
\* service: validated parameters, cache lookup, answer from the cache
ApiRequest ==
    /\ api.pc = "idle"
    /\ \E e \in Endpoints, q \in ApiQueries, m \in MoveFilters,
          l \in 1..MaxApiLimit, t \in ApiThresholds, redis \in BOOLEAN :
          /\ e = "concepts" => m = None
          /\ LET a      == [api EXCEPT !.endpoint = e, !.q = q, !.move = m,
                                       !.limit = l, !.threshold = t]
                 cached == GetSearchResults(api.cache, EndpointKey(a), redis)
             IN  api' = IF CachedTruthy(cached)
                        THEN [a EXCEPT !.pc = "done", !.hit = TRUE,
                                       !.response = cached.value]
                        ELSE [a EXCEPT !.pc = "search", !.hit = FALSE,
                                       !.response = <<>>]
    /\ UNCHANGED <<index, svc, req, running, chunkVars, upsertVars, providerVars>>

\* the rest of the handler: vector search, set_search_results, response
ApiSearch ==
    /\ api.pc = "search"
    /\ \E ok \in BOOLEAN, redis \in BOOLEAN :
          LET results == IF api.endpoint = "concepts"
                         THEN VectorSearchConcepts(api.q, api.limit, api.threshold, ok)
                         ELSE VectorSearchAnalyses(api.q, api.move, api.limit,
                                                   api.threshold, ok)
          IN  api' = [api EXCEPT
                         !.cache = SetSearchResults(api.cache, EndpointKey(api),
                                                    results, redis),
                         !.pc = "done",
                         !.response = results]
    /\ UNCHANGED <<index, svc, req, running, chunkVars, upsertVars, providerVars>>

\* the response is sent; the next request may arrive
ApiRespond ==
    /\ api.pc = "done"
    /\ api' = [IdleApi EXCEPT !.cache = api.cache]
    /\ UNCHANGED <<index, svc, req, running, chunkVars, upsertVars, providerVars>>

\* Redis drops a key when its ttl (180 s for search results) runs out
CacheExpire ==
    /\ \E k \in CacheKeys :
          /\ api.cache[k].present
          /\ api' = [api EXCEPT !.cache[k] = NoEntry]
    /\ UNCHANGED <<index, svc, req, running, chunkVars, upsertVars, providerVars>>

ChunkIdle ==
    /\ text = <<>>
    /\ cfg = [chunk_size |-> 2, chunk_overlap |-> 1, min_chunk_size |-> 1,
              respect_sentences |-> TRUE, respect_paragraphs |-> TRUE]
    /\ start = 0
    /\ end = 0
    /\ chunks = <<>>
    /\ chunk_index = 0
    /\ cpc = "done"
    /\ para = IdlePara

SearchIdle ==
    /\ index = [d \in Docs |-> [similarity |-> 30, rank |-> 0]]
    /\ svc = DefaultService
    /\ req = [r \in AllReqs |-> IdleReq]
    /\ running = Nobody
    /\ api = IdleApi

Configs(sizes) ==
    [chunk_size : sizes,
     chunk_overlap : 1..(MaxChunkSize + LongChunkSize),
     min_chunk_size : 1..MaxMinChunk,
     respect_sentences : BOOLEAN,
     respect_paragraphs : BOOLEAN]

ChunkStart ==
    /\ start = 0
    /\ end = 0
    /\ chunks = <<>>
    /\ chunk_index = 0
    /\ cpc = "call"
    /\ para = IdlePara

ChunkInit ==
    /\ text \in SeqsUpTo(Alphabet, MaxLen)
    /\ cfg \in {c \in Configs(2..MaxChunkSize) : c.chunk_overlap < c.chunk_size}
    /\ ChunkStart
    /\ SearchIdle
    /\ UpsertIdle
    /\ ProviderIdle

\* trimmed texts of one length, default boundary preferences, one chunk size
LongTexts ==
    {t \in [1..LongLen -> Alphabet] : t[1] \notin Whitespace /\ t[LongLen] \notin Whitespace}

ChunkLongInit ==
    /\ text \in LongTexts
    /\ cfg = [chunk_size |-> LongChunkSize, chunk_overlap |-> LongChunkSize - 1,
              min_chunk_size |-> 1, respect_sentences |-> TRUE,
              respect_paragraphs |-> TRUE]
    /\ ChunkStart
    /\ SearchIdle
    /\ UpsertIdle
    /\ ProviderIdle

\* short texts, for the termination check
ChunkLiveInit ==
    /\ text \in SeqsUpTo(Alphabet, LiveLen)
    /\ cfg \in {c \in Configs(2..MaxChunkSize) :
                 /\ c.chunk_overlap < c.chunk_size
                 /\ c.respect_sentences /\ c.respect_paragraphs}
    /\ ChunkStart
    /\ SearchIdle
    /\ UpsertIdle
    /\ ProviderIdle

ChunkNext == ChunkCall \/ ChunkIteration

ChunkSpec == ChunkInit /\ [][ChunkNext]_vars

\* the interpreter runs the loop to its exit: no step is postponed forever
FairChunkSpec ==
    ChunkLiveInit /\ [][ChunkNext]_vars /\ WF_vars(ChunkNext)

ChunkLongSpec == ChunkLongInit /\ [][ChunkNext]_vars

\* "_chunker = None": no chunker has been constructed
NoChunker ==
    [chunk_size |-> 0, chunk_overlap |-> 0, min_chunk_size |-> 0,
     respect_sentences |-> FALSE, respect_paragraphs |-> FALSE]

\* the default min_chunk_size (100 of 800), in the model's scale
DefaultMinChunkSize == 1

\* SemanticChunker.__init__: the arguments are stored as given
SemanticChunker(c) ==
    /\ cpc = "new"
    /\ cfg' = c
    /\ cpc' = "call"
    /\ UNCHANGED <<text, start, end, chunks, chunk_index, para,
                   searchVars, upsertVars, providerVars>>

\* get_chunker(chunk_size, chunk_overlap): the first call constructs the
\* singleton from its two arguments and the defaults
GetChunker ==
    \E size \in 1..MaxChunkSize, overlap \in 0..(MaxChunkSize + 1) :
        SemanticChunker([chunk_size |-> size, chunk_overlap |-> overlap,
                         min_chunk_size |-> DefaultMinChunkSize,
                         respect_sentences |-> TRUE,
                         respect_paragraphs |-> TRUE])

\* a chunker constructed directly, with any arguments
NewChunker ==
    \E c \in Configs(1..MaxChunkSize) :
        c.chunk_overlap <= MaxChunkSize + 1 /\ SemanticChunker(c)

\* before construction; the text is the argument chunk() will be given
ChunkConfigInit ==
    /\ text \in SeqsUpTo(Alphabet, LiveLen)
    /\ cfg = NoChunker
    /\ start = 0
    /\ end = 0
    /\ chunks = <<>>
    /\ chunk_index = 0
    /\ cpc = "new"
    /\ para = IdlePara
    /\ SearchIdle
    /\ UpsertIdle
    /\ ProviderIdle

ChunkConfigNext == GetChunker \/ NewChunker \/ ChunkCall \/ ChunkIteration

ChunkConfigSpec == ChunkConfigInit /\ [][ChunkConfigNext]_vars

\* texts of a few short paragraphs, with single newlines, longer breaks
\* and surrounding whitespace
ParaAlphabet == {"a", "\n"}
ParaConfigs ==
    {c \in Configs(1..MaxParaChunk) :
        /\ c.chunk_overlap = 1
        /\ c.respect_sentences /\ c.respect_paragraphs}

ParaInit ==
    /\ text \in SeqsUpTo(ParaAlphabet, MaxParaText)
    /\ cfg \in ParaConfigs
    /\ start = 0
    /\ end = 0
    /\ chunks = <<>>
    /\ chunk_index = 0
    /\ cpc = "done"
    /\ para = [IdlePara EXCEPT !.pc = "call"]
    /\ SearchIdle
    /\ UpsertIdle
    /\ ProviderIdle

ParaNext == ParaCall \/ ParaIteration \/ ParaFlush

ParaSpec == ParaInit /\ [][ParaNext]_vars

SearchInit ==
    /\ index \in SearchIndexes
    /\ svc = DefaultService
    /\ req = [r \in AllReqs |-> IdleReq]
    /\ running = Nobody
    /\ api = IdleApi
    /\ ChunkIdle
    /\ UpsertIdle
    /\ ProviderIdle

ConcInit ==
    /\ index \in ConcIndexes
    /\ svc = DefaultService
    /\ req = [r \in AllReqs |-> IdleReq]
    /\ running = Nobody
    /\ api = IdleApi
    /\ ChunkIdle
    /\ UpsertIdle
    /\ ProviderIdle

\* one request at a time
SearchNext == \E r \in {1} : SearchStep(r)

SearchSpec == SearchInit /\ [][SearchNext]_vars

\* two requests on the same event loop
ConcNext == \E r \in AllReqs : SearchStep(r)

ConcSpec == ConcInit /\ [][ConcNext]_vars

UpsertInit ==
    /\ UpsertIdle
    /\ ChunkIdle
    /\ SearchIdle
    /\ ProviderIdle

\* one upsert at a time
UpsertNext == \E u \in {1} : UpsertStep(u)

UpsertSpec == UpsertInit /\ [][UpsertNext]_vars

ProviderInit ==
    /\ use_openai \in BOOLEAN
    /\ openai_client = [s \in Services |-> FALSE]
    /\ emb = [s \in Services |-> IdleEmbed]
    /\ embed_calls = 0
    /\ ChunkIdle
    /\ SearchIdle
    /\ UpsertIdle

ProviderNext == \E s \in Services : ProviderStep(s)

ProviderSpec == ProviderInit /\ [][ProviderNext]_vars

\* one upsert and one search on the same event loop
StoreInit ==
    /\ pool = FALSE
    /\ store = [k \in Owners |-> NoRow]
    /\ up = [u \in Upserters |-> IdleUpsert]
    /\ prev = NoCall
    /\ provider_calls = 0
    /\ store_writes = 0
    /\ upserts = MaxUpserts - 1
    /\ index \in ConcIndexes
    /\ svc = DefaultService
    /\ req = [r \in AllReqs |-> IdleReq]
    /\ running = Nobody
    /\ api = IdleApi
    /\ ChunkIdle
    /\ ProviderIdle

StoreNext == UpsertStep(1) \/ SearchStep(1)

StoreSpec == StoreInit /\ [][StoreNext]_vars

\* two embed_concept / embed_document_chunk calls on the same event loop
ConcUpsertStep(u) ==
    \/ EmbedConcept(u)
    \/ EmbedConceptStore(u)
    \/ EmbedDocumentChunk(u)
    \/ EmbedDocumentChunkStore(u)

ConcUpsertNext == \E u \in Upserters : ConcUpsertStep(u)

ConcUpsertSpec == UpsertInit /\ [][ConcUpsertNext]_vars

\* every query text up to MaxQueryLen
Queries == SeqsUpTo(QueryAlphabet, MaxQueryLen)

QueryInit ==
    /\ index \in ConcIndexes
    /\ svc = DefaultService
    /\ req = [r \in AllReqs |-> IdleReq]
    /\ running = Nobody
    /\ api = IdleApi
    /\ ChunkIdle
    /\ UpsertIdle
    /\ ProviderIdle

\* one request at a time, through the endpoint or on the service, with any
\* query text
QueryNext ==
    \/ HybridSearchWith(1, Queries)
    \/ SearchDocumentsAt(1, {DefaultThreshold}, Queries)
    \/ EmbeddingReturns(1)
    \/ VectorRead(1)
    \/ KeywordRead(1)
    \/ Fuse(1)
    \/ Respond(1)

QuerySpec == QueryInit /\ [][QueryNext]_vars

\* SemanticChunker(): chunk_size 800, chunk_overlap 150, min_chunk_size 100,
\* both boundary preferences
DefaultConfig ==
    [chunk_size |-> 800, chunk_overlap |-> 150, min_chunk_size |-> 100,
     respect_sentences |-> TRUE, respect_paragraphs |-> TRUE]

\* a text of n letters with paragraph breaks whose ends are alternately g1
\* and g2 characters apart
TwoGapText(g1, g2, n) ==
    [i \in 1..n |->
        IF i % (g1 + g2) \in {g1, 0} \/ (i + 1) % (g1 + g2) \in {g1, 0}
        THEN "\n" ELSE "a"]

DefaultGaps == {339, 342, 450, 601, 650} \X {294, 297, 300}
DefaultLengths == {MaxDefaultLen - 100, MaxDefaultLen}
DefaultTexts ==
    {TwoGapText(g[1], g[2], n) : g \in DefaultGaps, n \in DefaultLengths}

DefaultInit ==
    /\ text \in DefaultTexts
    /\ cfg = DefaultConfig
    /\ ChunkStart
    /\ SearchIdle
    /\ UpsertIdle
    /\ ProviderIdle

DefaultSpec == DefaultInit /\ [][ChunkNext]_vars

\* the shortest inputs: texts and queries of up to two characters
ShortTexts == SeqsUpTo(Alphabet, MaxShortLen)
ShortQueries == SeqsUpTo({"a", " "}, MaxShortLen)

ShortInit ==
    /\ text \in ShortTexts
    /\ cfg = [chunk_size |-> 2, chunk_overlap |-> 1, min_chunk_size |-> 1,
              respect_sentences |-> TRUE, respect_paragraphs |-> TRUE]
    /\ ChunkStart
    /\ index \in ConcIndexes
    /\ svc = DefaultService
    /\ req = [r \in AllReqs |-> IdleReq]
    /\ running = Nobody
    /\ api = IdleApi
    /\ UpsertIdle
    /\ ProviderIdle

\* chunk() on a short text, and requests to the endpoint with short queries
ShortNext ==
    \/ ChunkCall
    \/ ChunkIteration
    \/ HybridSearchWith(1, ShortQueries)
    \/ EmbeddingReturns(1)
    \/ VectorRead(1)
    \/ KeywordRead(1)
    \/ Fuse(1)
    \/ Respond(1)

ShortSpec == ShortInit /\ [][ShortNext]_vars

\* services constructed with weights over the whole range the query
\* parameters allow (0.0 to 1.0) and a small or the default rrf_k
FusionWeights == {0, DefaultKeywordWeight, DefaultVectorWeight, 10}
FusionRrfKs == {1, DefaultRrfK}
FusionConfigs ==
    [vector_weight : FusionWeights, keyword_weight : FusionWeights,
     rrf_k : FusionRrfKs]

\* thresholds of the fusion runs: the lowest the endpoint allows, and the
\* default
FusionThresholds == {0, DefaultThreshold}

\* rows as one query sees them: A and B are opposed to, orthogonal to or
\* near the query and miss, match or match well; C and D are out of reach
FusionSims == {-10, 0, 60}
OutOfReach == [similarity |-> -10, rank |-> 0]
FusionIndexes ==
    {idx \in [Docs -> [similarity : FusionSims, rank : 0..MaxRank]] :
        idx["C"] = OutOfReach /\ idx["D"] = OutOfReach}

FusionInit ==
    /\ index \in FusionIndexes
    /\ svc \in FusionConfigs
    /\ req = [r \in AllReqs |-> IdleReq]
    /\ running = Nobody
    /\ api = IdleApi
    /\ ChunkIdle
    /\ UpsertIdle
    /\ ProviderIdle

\* one search_documents call at a time on a service of any configuration
FusionNext ==
    \/ SearchDocumentsAt(1, FusionThresholds, {DefaultQuery})
    \/ EmbeddingReturns(1)
    \/ VectorRead(1)
    \/ KeywordRead(1)
    \/ Fuse(1)
    \/ Respond(1)

FusionSpec == FusionInit /\ [][FusionNext]_vars

\* a sequence of requests to the cached search endpoints
CacheInit ==
    /\ ChunkIdle
    /\ SearchIdle
    /\ UpsertIdle
    /\ ProviderIdle

CacheNext == ApiRequest \/ ApiSearch \/ ApiRespond \/ CacheExpire

CacheSpec == CacheInit /\ [][CacheNext]_vars

\* ------------------------------------------------------------------------
\* Chunker properties
\* ------------------------------------------------------------------------
Last(s) == s[Len(s)]

\* every chunk of a call that returns is recorded
ChunksRecorded == cpc = "done" => Len(chunks) < MaxChunks

\* C1: chunk() terminates on every non-empty text for every configuration
\* with 0 < chunk_overlap < chunk_size: the loop reaches its exit.
C1_ChunkTerminates == <>(cpc = "done")

\* the final slice text[start:end] of a finished call
FinalSlice == Strip(PySlice(text, start, end))

FinalEmitted ==
    /\ chunks # <<>>
    /\ Last(chunks).start_char = start
    /\ Last(chunks).end_char = Len(text)

\* C2 (as stated): no emitted non-final chunk is shorter than
\* min_chunk_size, and the final chunk of a document is always emitted
\* regardless of its length.
C2_FinalAlwaysEmitted ==
    (cpc = "done" /\ text # <<>>) =>
        /\ \A i \in 1..Len(chunks) :
              chunks[i].end_char # Len(text) =>
                  Len(chunks[i].text) >= cfg.min_chunk_size
        /\ FinalEmitted

\* C2 (amended): no emitted chunk, final or not, is shorter than
\* min_chunk_size; the final slice is emitted exactly when its trimmed
\* length is at least min_chunk_size, and is dropped otherwise.
C2_MinSizeEveryChunk ==
    /\ \A i \in 1..Len(chunks) : Len(chunks[i].text) >= cfg.min_chunk_size
    /\ (cpc = "done" /\ text # <<>>) =>
           (FinalEmitted <=> Len(FinalSlice) >= cfg.min_chunk_size)

\* a finished call that emitted chunks and dropped its short final slice
C2_Witness ==
    /\ cpc = "done"
    /\ chunks # <<>>
    /\ end = Len(text)
    /\ Len(FinalSlice) < cfg.min_chunk_size
    /\ ~FinalEmitted

\* C3 (as stated): two consecutive returned chunks that overlap do so by
\* at most chunk_overlap characters.
C3_OverlapAtMostConfigured ==
    cpc = "done" =>
        \A i \in 1..(Len(chunks) - 1) :
            chunks[i + 1].start_char < chunks[i].end_char =>
                chunks[i].end_char - chunks[i + 1].start_char <= cfg.chunk_overlap

\* C3 (amended): the window after a window ending at end starts at
\* end - chunk_overlap snapped by _find_split_point, which may move it
\* forward or up to search_range - 1 characters backward; the overlap of
\* one window with the next is at most chunk_overlap + search_range - 1
\* (at most chunk_overlap + 199), so snapping can make it larger than
\* chunk_overlap as well as smaller.
C3_OverlapSnapBound ==
    [][(cpc = "loop" /\ cpc' = "loop") =>
          end' - start' <=
              cfg.chunk_overlap
              + Max2(SearchRange(text, end' - cfg.chunk_overlap) - 1, 0)]_vars

\* two consecutive returned chunks overlapping by more than chunk_overlap
C3_Witness ==
    /\ cpc = "done"
    /\ \E i \in 1..(Len(chunks) - 1) :
          chunks[i].end_char - chunks[i + 1].start_char > cfg.chunk_overlap

\* C4: the chunks returned for one document have non-decreasing
\* start_char.
C4_StartsNonDecreasing ==
    cpc = "done" =>
        \A i \in 1..(Len(chunks) - 1) :
            chunks[i + 1].start_char >= chunks[i].start_char

\* ------------------------------------------------------------------------
\* Fusion and search properties
\* ------------------------------------------------------------------------
Ids(results) == [i \in 1..Len(results) |-> results[i].id]
IdSet(results) == {results[i].id : i \in 1..Len(results)}

\* 1-based position of id in a ranked list, 0 if absent
RankIn(results, id) ==
    IF HasId(results, id) THEN IndexOfId(results, id) ELSE 0

\* weight / (rrf_k + rank) from each list that holds the item, else 0
RrfExpected(vw, kw, k, vector_results, keyword_results, id) ==
    RAdd(IF RankIn(vector_results, id) > 0
         THEN Frac(vw, k + RankIn(vector_results, id)) ELSE Zero,
         IF RankIn(keyword_results, id) > 0
         THEN Frac(kw, k + RankIn(keyword_results, id)) ELSE Zero)

Fused(r) ==
    /\ req[r].pc = "done"
    /\ req[r].vector_results # <<>> \/ req[r].keyword_results # <<>>

ScenarioLists(r) ==
    /\ Ids(req[r].vector_results) = <<"A", "B", "C">>
    /\ Ids(req[r].keyword_results) = <<"B", "A", "D">>
    /\ svc = DefaultService

\* C5: reciprocal rank fusion gives every item of either list
\* vector_weight / (rrf_k + r_v) if it is at position r_v of the vector list
\* plus keyword_weight / (rrf_k + r_k) if it is at position r_k of the
\* keyword list; with rrf_k 60, weights 0.7 and 0.3, vector ranking A, B, C
\* and keyword ranking B, A, D the scores are 0.016314, 0.016208, 0.011111
\* and 0.004762 and the order is A, B, C, D.
C5_RrfScores ==
    \A r \in AllReqs :
        (Fused(r) /\ req[r].use_reranking) =>
            LET vr == req[r].vector_results
                kr == req[r].keyword_results
                out == req[r].combined
            IN  /\ IdSet(out) = IdSet(vr) \cup IdSet(kr)
                /\ \A i \in 1..Len(out) :
                      REq(out[i].combined_score,
                          RrfExpected(svc.vector_weight, svc.keyword_weight,
                                      svc.rrf_k, vr, kr, out[i].id))
                /\ ScenarioLists(r) =>
                      /\ Ids(out) = <<"A", "B", "C", "D">>
                      /\ [i \in 1..4 |-> Micro(out[i].combined_score)]
                            = <<16314, 16208, 11111, 4762>>
                      /\ req[r].limit >= 4 =>
                            Ids(req[r].response) = <<"A", "B", "C", "D">>

\* the scenario of C5 was fused and returned whole
C5_Witness ==
    \E r \in AllReqs :
        /\ Fused(r) /\ req[r].use_reranking /\ ScenarioLists(r)
        /\ Len(req[r].response) = 4

\* C6: for both strategies the list search_documents returns holds each id
\* at most once, is ordered by combined_score descending and has length
\* min(limit, number of distinct ids in the two candidate lists).
C6_UniqueSortedLimited ==
    \A r \in AllReqs :
        req[r].pc = "done" =>
            LET out == req[r].response
                n == Cardinality(IdSet(req[r].vector_results)
                                 \cup IdSet(req[r].keyword_results))
            IN  /\ \A i, j \in 1..Len(out) : out[i].id = out[j].id => i = j
                /\ \A i \in 1..(Len(out) - 1) :
                      ~RLess(out[i].combined_score, out[i + 1].combined_score)
                /\ Len(out) = Min2(req[r].limit, n)

\* a weighted-combination search that merged an item of both lists,
\* reordered the fused list and cut it to the limit
C6_Witness ==
    \E r \in AllReqs :
        /\ req[r].pc = "done" /\ ~req[r].use_reranking
        /\ IdSet(req[r].vector_results) \cap IdSet(req[r].keyword_results) # {}
        /\ Len(req[r].response) = req[r].limit
        /\ Len(req[r].combined) > req[r].limit
        /\ Ids(req[r].response) # Ids(LimitSlice(req[r].combined, req[r].limit))

\* C7: concurrent hybrid queries share no mutable state: whatever the
\* interleaving of two /search/hybrid requests with different weights,
\* every combined_score of a response is computed with the weights of its
\* own request.
C7_OwnWeights ==
    \A r \in AllReqs :
        (Fused(r) /\ req[r].via_api) =>
            \A i \in 1..Len(req[r].response) :
                REq(req[r].response[i].combined_score,
                    RrfExpected(req[r].vector_weight, req[r].keyword_weight,
                                svc.rrf_k, req[r].vector_results,
                                req[r].keyword_results, req[r].response[i].id))

\* ------------------------------------------------------------------------
\* Upsert properties
\* ------------------------------------------------------------------------
HashChecked == {"concept", "document_chunk"}
FailFast == {"concept", "document_chunk", "analysis"}

\* the call of u repeats the call that returned just before it, and that one
\* succeeded: same kind, same owner id, same content
SecondCall(u) ==
    /\ up[u].kind \in HashChecked
    /\ prev.valid
    /\ prev.ok
    /\ prev.kind = up[u].kind
    /\ prev.id = up[u].id
    /\ prev.content = up[u].content

NoOpStep(u) ==
    /\ provider_calls' = provider_calls
    /\ store_writes' = store_writes
    /\ store' = store
    /\ up'[u].pc = "done"
    /\ up'[u].ok

C9_UnchangedHashNoOp ==
    [][\A u \in Upserters :
          (up'[u] # up[u] /\ up'[u].lookup # "error") =>
              /\ provider_calls' > provider_calls =>
                    ~HashIsCurrent(store'[Target(up'[u])], up'[u].content_hash)
              /\ store_writes' > store_writes =>
                    ~HashIsCurrent(store[Target(up[u])], up[u].content_hash)]_vars

AbsentReturned(u) ==
    /\ up[u].pc = "embedding"
    /\ up[u].kind \in FailFast
    /\ up'[u].pc = "done"
    /\ ~Truthy(up'[u].embedding)

NoNullOrZeroVector ==
    \A k \in Owners :
        store[k].present =>
            /\ store[k].embedding.some
            /\ ~IsZeroVector(store[k].embedding.v)

C11_FallbackOnFailure ==
    \A s \in Services :
        (use_openai /\ emb[s].pc = "done" /\ emb[s].openai = "failed") =>
            /\ emb[s].ollama = "returned"
            /\ emb[s].result = emb[s].ollama_result

\* ------------------------------------------------------------------------
\* Degradation and ordering of one search
\* ------------------------------------------------------------------------
\* C12: a search whose query embedding is absent skips the vector query,
\* still runs the keyword query, and returns the keyword results in their
\* order, cut to limit, each with its keyword score and vector_score = 0.
C12_KeywordOnlyWhenNoEmbedding ==
    \A r \in AllReqs :
        (req[r].pc = "done" /\ req[r].embedding = "absent") =>
            /\ req[r].vector_query = "skipped"
            /\ req[r].vector_results = <<>>
            /\ req[r].keyword_query \in {"ran", "failed"}
            /\ Ids(req[r].response) = Ids(Truncate(req[r].keyword_results, req[r].limit))
            /\ \A i \in 1..Len(req[r].response) :
                  /\ req[r].response[i].vector_score = 0
                  /\ req[r].response[i].keyword_score = req[r].keyword_results[i].keyword_score

\* no embedding, and two keyword hits returned
C12_Witness ==
    /\ req[1].pc = "done"
    /\ req[1].embedding = "absent"
    /\ req[1].keyword_query = "ran"
    /\ Len(req[1].response) >= 2

\* C13: a search always ends with a list: without a pool it is empty; a
\* signal that did not run to its end contributes no candidate; the list
\* holds candidates of the two signals only and is empty exactly when both
\* candidate lists are.
C13_FailuresDegradeToEmpty ==
    \A r \in AllReqs :
        /\ req[r].vector_query # "ran" => req[r].vector_results = <<>>
        /\ req[r].keyword_query # "ran" => req[r].keyword_results = <<>>
        /\ req[r].pc = "done" =>
              /\ ~req[r].pool_ok => req[r].response = <<>>
              /\ req[r].pool_ok =>
                    /\ req[r].vector_query # "none"
                    /\ req[r].keyword_query # "none"
              /\ IdSet(req[r].response)
                    \subseteq IdSet(req[r].vector_results) \cup IdSet(req[r].keyword_results)
              /\ req[r].response = <<>>
                    <=> (req[r].vector_results = <<>> /\ req[r].keyword_results = <<>>)

\* the vector query raised and the keyword query's hits are returned
C13_Witness ==
    /\ req[1].pc = "done"
    /\ req[1].embedding = "vector"
    /\ req[1].vector_query = "failed"
    /\ req[1].keyword_query = "ran"
    /\ req[1].response # <<>>

\* C15: in one search the embedding has returned before either index is
\* read, and the fusion starts only when both reads have ended (run, failed
\* or skipped).
C15_EmbedThenReadThenFuse ==
    [][\A r \in AllReqs :
          /\ req'[r].vector_query # req[r].vector_query /\ req'[r].pc # "idle"
                => req[r].embedding # "none"
          /\ req'[r].keyword_query # req[r].keyword_query /\ req'[r].pc # "idle"
                => req[r].embedding # "none"
          /\ (req[r].pc # "done" /\ req'[r].pc = "done" /\ req'[r].pool_ok)
                => /\ req[r].vector_query # "none"
                   /\ req[r].keyword_query # "none"]_vars

\* a search that read both indexes and fused two non-empty lists
C15_Witness ==
    /\ req[1].pc = "done"
    /\ req[1].vector_query = "ran"
    /\ req[1].keyword_query = "ran"
    /\ req[1].vector_results # <<>>
    /\ req[1].keyword_results # <<>>

\* ------------------------------------------------------------------------
\* Store connections
\* ------------------------------------------------------------------------
\* C14: no upsert and no search holds a store connection while its
\* embedding request is in flight; a connection is held for one query only,
\* so none is held between the steps of a call.
C14_NoConnectionAcrossEmbedding ==
    /\ \A u \in Upserters : up[u].conns = 0
    /\ \A r \in AllReqs : req[r].conns = 0

\* an upsert waits for its embedding after its lookup, and a search waits
\* for its embedding after the upsert's connection was given back
C14_Witness ==
    /\ up[1].pc = "embedding"
    /\ up[1].lookup = "stale"
    /\ req[1].pc = "embedding"

\* ------------------------------------------------------------------------
\* Concurrent upserts
\* ------------------------------------------------------------------------
RowOf(c) == Row(c.content, c.content_hash, c.embedding)

Stored(u) == up[u].pc = "done" /\ up[u].exit = "stored"

\* both callers have upserted the same owner with different content
Raced ==
    /\ upserts = 2
    /\ \A u \in Upserters : up[u].pc = "done" /\ up[u].kind \in HashChecked
    /\ up[1].kind = up[2].kind
    /\ up[1].id = up[2].id
    /\ up[1].content # up[2].content

\* C16: however two upserts of one owner with different content interleave,
\* the owner's row (one per owner id: the tables' UNIQUE keys) is changed
\* only by a call's write, which sets content, content_hash and embedding
\* together from that call, so the row is whole and is the last writer's;
\* its content_hash is the hash of its content.
C16_LastWriterWins ==
    /\ [][\A k \in Owners :
            store'[k] # store[k] =>
                \E u \in Upserters :
                    /\ up[u].pc = "embedding"
                    /\ Stored(u)'
                    /\ Target(up[u]) = k
                    /\ store'[k] = RowOf(up'[u])]_vars
    /\ [](\A k \in Owners :
            store[k].present => store[k].content_hash = ComputeHash(store[k].content))
    /\ []((Raced /\ \E u \in Upserters : Stored(u)) =>
            \E u \in Upserters : Stored(u) /\ store[Target(up[u])] = RowOf(up[u]))

\* both calls waited for their embeddings at the same time, both wrote, and
\* the row is the second caller's
C16_Witness ==
    /\ Raced
    /\ Stored(1)
    /\ Stored(2)
    /\ up[1].lookup = "stale"
    /\ up[2].lookup = "stale"
    /\ store_writes = 2
    /\ store[Target(up[2])] = RowOf(up[2])
    /\ store[Target(up[1])] # RowOf(up[1])

\* ------------------------------------------------------------------------
\* Threshold
\* ------------------------------------------------------------------------
SolelyVector(r, id) ==
    id \in IdSet(req[r].vector_results) \ IdSet(req[r].keyword_results)

\* C17: no result of a search that is in the vector candidates and not in
\* the keyword candidates has a vector_score below the request's threshold.
C17_ThresholdExclusion ==
    \A r \in AllReqs :
        req[r].pc = "done" =>
            \A i \in 1..Len(req[r].response) :
                SolelyVector(r, req[r].response[i].id) =>
                    req[r].response[i].vector_score >= req[r].threshold

\* a result admitted by the vector signal alone, and a row that the raised
\* threshold kept out although the default one would have let it in
C17_Witness ==
    /\ req[1].pc = "done"
    /\ req[1].threshold > DefaultThreshold
    /\ \E i \in 1..Len(req[1].response) : SolelyVector(1, req[1].response[i].id)
    /\ \E d \in Docs :
          /\ index[d].similarity >= DefaultThreshold
          /\ index[d].similarity < req[1].threshold
          /\ index[d].rank = 0
          /\ d \notin IdSet(req[1].response)

\* ------------------------------------------------------------------------
\* Fusion properties over every configuration
\* ------------------------------------------------------------------------
\* the fused entry of an id
EntryOf(results, id) == results[IndexOfId(results, id)]

\* request r was fused by reciprocal rank fusion and one item leads both
\* lists
BothFirst(r) ==
    /\ Fused(r) /\ req[r].use_reranking
    /\ req[r].vector_results # <<>> /\ req[r].keyword_results # <<>>
    /\ req[r].vector_results[1].id = req[r].keyword_results[1].id

BothFirstScore(r) ==
    EntryOf(req[r].combined, req[r].vector_results[1].id).combined_score

\* what the service gives an item that leads one list alone and is absent
\* from the other
VectorOnlyFirstScore == Frac(svc.vector_weight, svc.rrf_k + 1)
KeywordOnlyFirstScore == Frac(svc.keyword_weight, svc.rrf_k + 1)

LargestScore(results, signal) ==
    LET scores == {IF signal = "vector" THEN results[i].vector_score
                   ELSE results[i].keyword_score : i \in 1..Len(results)}
    IN  CHOOSE m \in scores : \A x \in scores : x <= m

\* weight * score / largest from a list that holds the item, 0 from a list
\* that does not or whose largest score is not positive
WeightedShare(weight, results, signal, id) ==
    IF ~HasId(results, id) THEN Zero
    ELSE IF LargestScore(results, signal) <= 0 THEN Zero
    ELSE LET e == EntryOf(results, id)
         IN  Frac(weight * (IF signal = "vector" THEN e.vector_score
                            ELSE e.keyword_score),
                  LargestScore(results, signal))

\* C19: _weighted_combination gives every item vector_weight * vector_score
\* / (largest vector_score of the vector list) if it is in the vector list
\* plus keyword_weight * keyword_score / (largest keyword_score of the
\* keyword list) if it is in the keyword list; a list that does not hold the
\* item adds 0, and a list whose largest score is 0 adds 0 to each of its
\* items instead of dividing by zero.
C19_WeightedScores ==
    \A r \in AllReqs :
        (Fused(r) /\ ~req[r].use_reranking) =>
            LET vr == req[r].vector_results
                kr == req[r].keyword_results
                out == req[r].combined
            IN  /\ IdSet(out) = IdSet(vr) \cup IdSet(kr)
                /\ \A i \in 1..Len(out) :
                      /\ out[i].combined_score[2] # 0
                      /\ REq(out[i].combined_score,
                             RAdd(WeightedShare(svc.vector_weight, vr, "vector",
                                                out[i].id),
                                  WeightedShare(svc.keyword_weight, kr, "keyword",
                                                out[i].id)))

\* a weighted combination over a vector list whose largest score is 0, with
\* an item in the vector list alone and an item in both lists
C19_Witness ==
    \E r \in AllReqs :
        /\ Fused(r) /\ ~req[r].use_reranking
        /\ svc.vector_weight > 0 /\ svc.keyword_weight > 0
        /\ Len(req[r].vector_results) = 2
        /\ LargestScore(req[r].vector_results, "vector") = 0
        /\ Len(req[r].keyword_results) = 1
        /\ Len(req[r].combined) = 2
        /\ \E i \in 1..2 : REq(req[r].combined[i].combined_score, Zero)
        /\ \E i \in 1..2 :
              REq(req[r].combined[i].combined_score, Frac(svc.keyword_weight, 1))

\* ------------------------------------------------------------------------
\* Configuration properties
\* ------------------------------------------------------------------------
\* C20: a configuration with chunk_overlap >= chunk_size is rejected when
\* the chunker is constructed, so chunk() never runs with one: whenever
\* the loop of chunk() is running, chunk_overlap < chunk_size.
C20_OverlapBelowSizeWhenChunking ==
    cpc = "loop" => cfg.chunk_overlap < cfg.chunk_size

\* ------------------------------------------------------------------------
\* Chunk records
\* ------------------------------------------------------------------------
\* C21: every chunk chunk() emits (min_chunk_size >= 1) is well formed: its
\* index is its 0-based position in the list, 0 <= start_char < end_char <=
\* len(trimmed text), end_char - start_char >= min_chunk_size, and its text
\* is the slice trimmed_text[start_char:end_char] with surrounding
\* whitespace removed.
C21_ChunksWellFormed ==
    \A i \in 1..Len(chunks) :
        /\ chunks[i].index = i - 1
        /\ 0 <= chunks[i].start_char
        /\ chunks[i].start_char < chunks[i].end_char
        /\ chunks[i].end_char <= Len(text)
        /\ chunks[i].end_char - chunks[i].start_char >= cfg.min_chunk_size
        /\ chunks[i].text
              = Strip(SubSeq(text, chunks[i].start_char + 1, chunks[i].end_char))

\* a finished call with several chunks, one of them shorter than its slice
\* because whitespace was trimmed
C21_Witness ==
    /\ cpc = "done"
    /\ Len(chunks) >= 3
    /\ cfg.min_chunk_size > 1
    /\ \E i \in 1..Len(chunks) :
          Len(chunks[i].text) < chunks[i].end_char - chunks[i].start_char

\* ------------------------------------------------------------------------
\* Paragraph packing
\* ------------------------------------------------------------------------
\* the list with one more chunk, whose text is the buffer
Emitted(before, after, buffer) ==
    /\ Len(after) = Len(before) + 1
    /\ SubSeq(after, 1, Len(before)) = before
    /\ Last(after).text = buffer
    /\ Last(after).index = Len(before)

\* what one step of the loop, or the flush after it, must do
PackedGreedily ==
    LET cur == para.current_chunk
        ps  == para.paragraphs
        min == cfg.min_chunk_size
    IN  IF ps # <<>>
        THEN LET p      == Head(ps)
                 joined == cur \o <<"\n", "\n">> \o p
             IN  /\ para'.paragraphs = Tail(ps)
                 /\ IF cur = <<>>
                    THEN para'.current_chunk = p /\ para'.chunks = para.chunks
                    ELSE IF Len(joined) <= cfg.chunk_size
                    THEN para'.current_chunk = joined /\ para'.chunks = para.chunks
                    ELSE /\ para'.current_chunk = p
                         /\ IF Len(cur) >= min
                            THEN Emitted(para.chunks, para'.chunks, cur)
                            ELSE para'.chunks = para.chunks
        ELSE /\ para'.pc = "done"
             /\ IF cur # <<>> /\ Len(cur) >= min
                THEN Emitted(para.chunks, para'.chunks, cur)
                ELSE para'.chunks = para.chunks

\* C22: chunk_by_paragraphs packs the paragraphs greedily and in order: a
\* paragraph is joined to the buffer with a 2-character separator while the
\* result is at most chunk_size; when it does not fit, the buffer is emitted
\* if and only if it has at least min_chunk_size characters and the new
\* buffer is that paragraph; after the last paragraph the buffer is emitted
\* under the same rule.  So every emitted chunk has at least min_chunk_size
\* characters and every emitted chunk of two or more paragraphs has at most
\* chunk_size characters.
C22_GreedyPacking ==
    /\ [](\A i \in 1..Len(para.chunks) :
             /\ Len(para.chunks[i].text) >= cfg.min_chunk_size
             /\ Len(SplitIntoParagraphs(para.chunks[i].text)) >= 2 =>
                    Len(para.chunks[i].text) <= cfg.chunk_size)
    /\ [][para.pc = "loop" => PackedGreedily]_vars

\* a finished call that emitted one chunk of two paragraphs and dropped the
\* last buffer for being shorter than min_chunk_size
C22_Witness ==
    /\ para.pc = "done"
    /\ Len(para.chunks) = 1
    /\ Len(SplitIntoParagraphs(para.chunks[1].text)) = 2
    /\ para.current_chunk # <<>>
    /\ Len(para.current_chunk) < cfg.min_chunk_size

\* ------------------------------------------------------------------------
\* Batch embedding
\* ------------------------------------------------------------------------
\* caller u is in the loop of embed_source_chunks, after the await
InBatch(u) == up[u].pc = "embedding" /\ up[u].kind = "source_chunk"

\* what one turn of the loop must do: store the chunk and count it exactly
\* when its embedding is present and the write succeeds, and go on to the
\* next chunk whatever happened to this one
BatchTurn(u) ==
    LET written == store_writes' = store_writes + 1
        row     == store'[Target(up[u])]
    IN  /\ store_writes' \in {store_writes, store_writes + 1}
        /\ written => /\ Truthy(up'[u].embedding)
                       /\ row.present
                       /\ row.content = up[u].content
                       /\ row.embedding = up'[u].embedding
        /\ ~written => store' = store
        /\ ~Truthy(up'[u].embedding) => ~written
        /\ up'[u].embedded_count
              = up[u].embedded_count + (IF written THEN 1 ELSE 0)
        /\ IF up[u].i + 1 < Len(up[u].chunks)
           THEN /\ up'[u].pc = "embedding"
                /\ up'[u].i = up[u].i + 1
                /\ up'[u].content = up[u].chunks[up[u].i + 2]
                /\ provider_calls' = provider_calls + 1
           ELSE /\ up'[u].pc = "done"
                /\ up'[u].exit = "counted"

\* C23: in embed_source_chunks a chunk whose embedding is absent, or whose
\* row write fails, is skipped without failing the batch: every later chunk
\* is still embedded and stored, and the count returned is the number of
\* chunks stored.
C23_BatchSkipsFailedChunk ==
    /\ [][\A u \in Upserters : InBatch(u) => BatchTurn(u)]_vars
    /\ [](\A u \in Upserters :
            (up[u].kind = "source_chunk" /\ up[u].pc = "done"
                /\ up[u].exit = "counted") =>
                up[u].embedded_count <= Len(up[u].chunks))

\* a batch of two chunks returned 1: the first chunk got no embedding and
\* has no row, the second was stored
C23_Witness ==
    \E u \in Upserters :
        /\ up[u].kind = "source_chunk" /\ up[u].pc = "done"
        /\ Len(up[u].chunks) = 2
        /\ up[u].embedded_count = 1
        /\ ~store[Key("source_chunk", up[u].id, 0)].present
        /\ store[Key("source_chunk", up[u].id, 1)].present

\* ------------------------------------------------------------------------
\* Query texts
\* ------------------------------------------------------------------------
Punctuation == {".", "_"}

\* _keyword_search has returned for request r
KeywordReturned(r) ==
    req[r].pc \in {"keyword_done", "done"} /\ req[r].keyword_query # "none"

OnlyPunctuationAndSpace(q) ==
    \A i \in 1..Len(q) : q[i] \in Punctuation \cup SpaceCharacters

\* C24: for a query that holds only punctuation and whitespace, and so
\* yields no term, _keyword_search returns an empty list without executing
\* a store query.
C24_PunctuationOnlySkipsStore ==
    \A r \in AllReqs :
        (KeywordReturned(r) /\ OnlyPunctuationAndSpace(req[r].query)) =>
            /\ req[r].keyword_query = "skipped"
            /\ req[r].keyword_results = <<>>

\* ------------------------------------------------------------------------
\* Empty inputs
\* ------------------------------------------------------------------------
\* C25: chunk() returns an empty sequence for the empty string and for any
\* text that is empty after trimming, and a query shorter than 2 characters
\* is rejected by the parameter validation of /search/hybrid before
\* search_documents is called.
C25_EmptyInputs ==
    /\ [][(cpc = "call" /\ cpc' # "call" /\ Strip(text) = <<>>) =>
             (cpc' = "done" /\ chunks' = <<>>)]_vars
    /\ [](cpc = "done" /\ text = <<>> => chunks = <<>>)
    /\ [](\A r \in AllReqs :
             (req[r].via_api /\ Len(req[r].query) < 2) =>
                 /\ req[r].rejected
                 /\ ~req[r].called
                 /\ req[r].response = <<>>)
    /\ [](\A r \in AllReqs : req[r].rejected => Len(req[r].query) < 2)

\* chunk() has returned nothing for a text of whitespace and a request
\* with a one-character query was rejected
C25_Witness ==
    /\ cpc = "done" /\ text = <<>> /\ chunks = <<>>
    /\ \E r \in AllReqs :
          /\ req[r].rejected
          /\ Len(req[r].query) = 1
          /\ req[r].pc = "done"

\* ------------------------------------------------------------------------
\* Progress of the chunking loop
\* ------------------------------------------------------------------------
\* C26: every iteration of the loop of chunk() that does not stop moves the
\* cursor strictly forward: the next start is greater than the current
\* start, for any 0 < chunk_overlap < chunk_size and any text.
C26_CursorAdvances ==
    [][(cpc = "loop" /\ cpc' = "loop") => start' > start]_vars

\* C27: with the default configuration the loop of chunk() runs at most
\* len(text) / (chunk_size - chunk_overlap) + 1 times on a non-empty text.
\* Every iteration emits at most one chunk, so a call that returns has
\* emitted at most that many chunks:
\* chunks * (chunk_size - chunk_overlap) <= len(text) + (chunk_size -
\* chunk_overlap).
C27_IterationBound ==
    (cpc = "done" /\ text # <<>>) =>
        chunk_index * (cfg.chunk_size - cfg.chunk_overlap)
            <= Len(text) + (cfg.chunk_size - cfg.chunk_overlap)

\* ------------------------------------------------------------------------
\* Split points
\* ------------------------------------------------------------------------
\* t[i] for a 0-based position i, "" outside the text
CharAt(t, i) == IF i >= 0 /\ i < Len(t) THEN t[i + 1] ELSE ""

\* the least offset below window at which the forward or the backward
\* position is a hit, as <<offset, direction>>; <<window, "none">> if none
NearestHit(fwd, bwd, window) ==
    LET hits == {o \in 0..(window - 1) : fwd[o] \/ bwd[o]}
    IN  IF hits = {} THEN <<window, "none">>
        ELSE LET o == CHOOSE h \in hits : \A g \in hits : h <= g
             IN  <<o, IF fwd[o] THEN "forward" ELSE "backward">>

\* a paragraph break within 200 characters of the target: "\n\n" starting
\* at target + o, or ending at target - o
ParagraphHit(t, target) ==
    NearestHit([o \in 0..199 |-> CharAt(t, target + o) = "\n"
                                    /\ CharAt(t, target + o + 1) = "\n"],
               [o \in 0..199 |-> CharAt(t, target - o - 2) = "\n"
                                    /\ CharAt(t, target - o - 1) = "\n"],
               200)

\* a sentence ending followed by a space within 200 characters
SentenceHit(t, target) ==
    NearestHit([o \in 0..199 |-> CharAt(t, target + o) \in {".", "!", "?"}
                                    /\ CharAt(t, target + o + 1) = " "],
               [o \in 0..199 |-> /\ target - o > 0
                                  /\ CharAt(t, target - o - 1) \in {".", "!", "?"}
                                  /\ CharAt(t, target - o) = " "],
               200)

\* a space within 50 characters
WordHit(t, target) ==
    NearestHit([o \in 0..49 |-> CharAt(t, target + o) = " "],
               [o \in 0..49 |-> target - o > 0 /\ CharAt(t, target - o) = " "],
               50)

\* the split the priority order names
PrioritySplit(c, t, target) ==
    LET break == ParagraphHit(t, target)
        sent == SentenceHit(t, target)
        word == WordHit(t, target)
    IN  IF c.respect_paragraphs /\ break[2] # "none"
        THEN (IF break[2] = "forward" THEN target + break[1] + 2 ELSE target - break[1])
        ELSE IF c.respect_sentences /\ sent[2] # "none"
        THEN (IF sent[2] = "forward" THEN target + sent[1] + 2 ELSE target - sent[1])
        ELSE IF word[2] # "none"
        THEN (IF word[2] = "forward" THEN target + word[1] + 1
              ELSE target - word[1] + 1)
        ELSE target

\* C28: _find_split_point(text, target) returns, in strict priority order,
\* the paragraph break nearest to the target within 200 characters (offsets
\* 0, 1, 2, ..., forward before backward); failing that, with
\* respect_sentences, the nearest sentence ending followed by a space found
\* the same way; failing that the nearest space within 50 characters;
\* otherwise the target.  The position returned lies in 1..len(text).
\* Stated for the window end that chunk() asks for.
C28_SplitPriority ==
    [][(cpc = "loop" /\ start < Len(text)
           /\ start + cfg.chunk_size < Len(text)) =>
          /\ end' = PrioritySplit(cfg, text, start + cfg.chunk_size)
          /\ end' \in 1..Len(text)]_vars

\* C29: chunk never skips input between consecutive windows: in every
\* iteration of the loop that does not stop, the next start is at most the
\* end of the window just extracted, so no character of the trimmed text
\* falls between two slices text[start:end].
C29_NoGapBetweenWindows ==
    [][(cpc = "loop" /\ cpc' = "loop") => start' <= end']_vars

\* ------------------------------------------------------------------------
\* Search endpoints and the search cache
\* ------------------------------------------------------------------------
\* C30: for any sequence of /search/concepts and /search/analyses requests,
\* including those answered from the search cache, every result in a
\* response has similarity >= the request's threshold and the response
\* holds at most the request's limit results.
C30_ResponseWithinThresholdAndLimit ==
    api.pc = "done" =>
        /\ \A i \in 1..Len(api.response) :
              api.response[i].similarity >= api.threshold
        /\ Len(api.response) <= api.limit
====
